---- MODULE Spec2Model ----
(***************************************************************************)
(* A model of the alumina bootstrap compiler's write-once item cells and   *)
(* of its macro expander (MacroExpander in ast/macros.rs).                 *)
(*                                                                         *)
(* AST nodes are records [k, id, ch, span]: k is the variant of ExprKind / *)
(* StatementKind (or "FieldInitializer"), id the AstId, literal or item id *)
(* the variant carries, ch the children in source order and span the       *)
(* node's span.  Option values are sequences: <<>> is None, <<v>> Some(v). *)
(* Indices keep Rust's 0-based numbering; sequences are 1-based, so the    *)
(* i-th element of a slice s is s[i + 1].                                  *)
(***************************************************************************)
EXTENDS Integers, Sequences, FiniteSets, TLC

\* ---------------------------------------------------------------- bounds
\* Most parameters a macro under expansion declares.
MaxParams == 3
\* Most arguments an invocation carries.
MaxArgs == 4
\* An expander is constructed only while fewer ids than this were minted.
MaxMinted == 2
\* Most item cells created per arena.
MaxCells == 2
\* The macro symbols name resolution has created.
MaxMacros == 2
\* Most types allocated on the two arenas together.
MaxTypes == 4
\* Most intern_type calls recorded.
MaxInterns == 3
\* Longest array type.
MaxArray == 2
\* Most functions one writer emits.
MaxFunctions == 1
\* Longest string literal written.
MaxBytes == 3
\* Most arguments of an operator of a cfg expression.
MaxCfgArgs == 2
\* Most meta items in the attribute list of one item.
MaxAttributes == 2
\* Most function definitions a first pass visits.
MaxVisited == 2
\* Deepest nesting of modules in a source file.
MaxNesting == 1
\* Most item groups a maker is handed.
MaxGroups == 2
\* Most impl blocks under one name.
MaxImpls == 2

VARIABLES
    counter,     \* AstCtx.counter
    astCells,    \* the AST arena's ItemCells: id -> contents (OnceCell)
    irCounter,   \* IrCtx.counter
    irCells,     \* the IR arena's IRItemCells: id -> contents (OnceCell)
    panicked,    \* the process has panicked (it is aborted)
    attempts,    \* history: <<arena, id>> -> number of assign calls on the cell
    stored,      \* history: <<arena, id>> -> the values assign calls stored, in order
    expander,    \* the MacroExpander under construction or expanded (None: none)
    result,      \* what expand returned for it (None: not yet expanded)
    letIds,       \* history: ids given to let-declarations by completed expansions
    macroCells,  \* the ItemCells of the macros defined: symbol -> contents (OnceCell)
    making,      \* the symbols whose MacroMaker::make is generating the body, innermost last
    makeResult,  \* what the latest MacroMaker::make call returned (None: none yet)
    macroDefs,   \* the definition (syntax node, attributes) behind each macro symbol, once known
    arena,       \* per arena context, the types allocated on its bump arena, by address
    types,       \* per arena context, the intern set: addresses of the interned types
    interned,    \* history: the intern_type calls made, with the address each returned
    sized,       \* the latest is_zero_sized query: the type and the answer (None: none)
    codegen,     \* the CodegenCtx: global flags, names registered, id counter (None: not set up)
    writer,      \* the FunctionWriter (None: not constructed)
    emitted,      \* history: per function id, the item and what its declaration and body calls wrote
    literal,      \* history: the bytes write_string_literal was given last, each byte's flag, the text written (None: none)
    attrs,       \* the AttributeVisitor parsing one item's attribute list, with the meta items visited (None: none)
    pass1,       \* the FirstPassVisitor over a source file, with the functions visited (None: none)
    cfgs,        \* the latest CfgVisitor evaluation: configuration, expression, what visit returned (None: none)
    maker        \* the AstItemMaker: its symbol list and the item groups it was handed

vars == <<counter, astCells, irCounter, irCells, panicked, attempts, stored,
          expander, result, letIds,
          macroCells, making, makeResult,
          macroDefs,
          arena, types, interned, sized, codegen, writer, emitted,
          literal,
          attrs, pass1, cfgs, maker>>

\* ---------------------------------------------------------------- options, maps
None == <<>>
Some(v) == <<v>>
Unwrap(o) == o[1]

EmptyMap == <<>>
\* HashMap::insert
Insert(map, key, value) ==
    [y \in (DOMAIN map) \cup {key} |-> IF y = key THEN value ELSE map[y]]

\* ---------------------------------------------------------------- ids and spans
\* Ids minted before any expansion: the parameters of the macro under
\* expansion (pass1 visit_macro_parameter mints them, position i gets id i),
\* the let-declarations and captured locals of its body, and the library
\* macros with their parameters.
LetId1 == MaxParams + 1
LetId2 == MaxParams + 2
CapturedId == MaxParams + 3
WrapItem == MaxParams + 4
WrapX == MaxParams + 5
IncItem == MaxParams + 6
IncX == MaxParams + 7
IncY == MaxParams + 8
LineItem == MaxParams + 9
PairItem == MaxParams + 10
PairA == MaxParams + 11
PairB == MaxParams + 12
PairT == MaxParams + 15
BindItem == MaxParams + 13
ReduceItem == MaxParams + 14
FirstFreeId == MaxParams + 20

\* Span: file, line, column (0-based, as tree-sitter counts them)
Span(file, line, column) == [file |-> file, line |-> line, column |-> column]
NoSpan == Span("", 0, 0)
\* span of a node of a macro definition
DefSpan == Span("macros.alu", 1, 4)
\* span of an argument expression written at an invocation site
ArgSpan == Span("main.alu", 2, 8)
\* span of the invocation sites
InvocationSpan == Span("main.alu", 6, 2)

\* ---------------------------------------------------------------- AST
Node(k, id, ch, span) == [k |-> k, id |-> id, ch |-> ch, span |-> span]
NoNode == Node("None", 0, <<>>, NoSpan)

Local(id) == Node("Local", id, <<>>, DefSpan)
Lit(v) == Node("Lit", v, <<>>, DefSpan)
\* Lit::Str: a string of decimal digits, written as the number they spell
\* (0: the empty string)
Str(s) == Node("LitStr", s, <<>>, ArgSpan)
Void == Node("Void", 0, <<>>, DefSpan)
EtCetera(inner) == Node("EtCetera", 0, <<inner>>, DefSpan)
Tuple(elems) == Node("Tuple", 0, elems, DefSpan)
Array(elems) == Node("Array", 0, elems, DefSpan)
Call(callee, args) == Node("Call", 0, <<callee>> \o args, DefSpan)
Binary(lhs, rhs) == Node("Binary", 0, <<lhs, rhs>>, DefSpan)
Block(statements, ret) == Node("Block", 0, statements \o <<ret>>, DefSpan)
Expression(e) == Node("Expression", 0, <<e>>, DefSpan)
\* value: None or Some(the initializer)
LetDeclaration(id, value) == Node("LetDeclaration", id, value, DefSpan)
FieldInitializer(name, value) == Node("FieldInitializer", name, <<value>>, DefSpan)
Struct(inits) == Node("Struct", 0, inits, DefSpan)
MacroRef(item, bound) == Node("Macro", item, bound, DefSpan)
MacroInvocation(inner, args) == Node("MacroInvocation", 0, <<inner>> \o args, DefSpan)

\* The i-th argument expression of an invocation (0-based), written at the
\* call site: distinct arguments are distinct expressions.
Arg(i) == Node("Lit", 100 + i, <<>>, ArgSpan)
Args(m) == [i \in 1..m |-> Arg(i - 1)]

\* MacroParameter
Param(id, etc) == [id |-> id, et_cetera |-> etc, span |-> DefSpan]
\* Item::Macro and Item::BuiltinMacro
MacroItem(params, body) == [kind |-> "Macro", args |-> params, body |-> body, bk |-> ""]
BuiltinItem(bk) == [kind |-> "BuiltinMacro", args |-> <<>>, body |-> None, bk |-> bk]
\* what ItemCell::get finds in a cell that was never assigned
NoItem == [kind |-> "Unassigned", args |-> <<>>, body |-> None, bk |-> ""]

\* ---------------------------------------------------------------- errors, results
Error(kind, a, b, span) == [kind |-> kind, a |-> a, b |-> b, span |-> span]
NoError == Error("", 0, 0, NoSpan)
Ok(v, x) == [ok |-> TRUE, v |-> v, err |-> NoError, x |-> x]
Err(e, x) == [ok |-> FALSE, v |-> NoNode, err |-> e, x |-> x]

\* ---------------------------------------------------------------- ids
\* AstCtx::make_id / IrCtx::make_id: the counter's value, the counter advanced.
make_id_Stuck(c) == [id |-> c, counter |-> c]
make_id(c) == [id |-> c, counter |-> c + 1]

\* ---------------------------------------------------------------- item cells
\* The items a cell is assigned (Item of the AST, IRItem of the IR).
AstItems == {"Struct", "Function"}
IrItems == {"StructLike", "Function"}

\* OnceCell::set: stores into an empty cell; a full cell is left as it is
\* and the value is handed back as Err.
OnceCell_set(contents, value) ==
    IF contents = None
    THEN [ok |-> TRUE, contents |-> Some(value)]
    ELSE [ok |-> FALSE, contents |-> contents]

\* ItemCell::assign: contents.set(value).unwrap()
ItemCell_assign_Overwrite(contents, value) == [contents |-> Some(value), panic |-> FALSE]
ItemCell_assign(contents, value) ==
    LET r == OnceCell_set(contents, value)
    IN  [contents |-> r.contents, panic |-> ~r.ok]

\* IRItemCell::assign: contents.set(value).expect("assigning the same symbol twice")
IRItemCell_assign(contents, value) ==
    LET r == OnceCell_set(contents, value)
    IN  [contents |-> r.contents, panic |-> ~r.ok]

\* History kept beside an assign call on cell `key` with outcome r.
Attempted(key) == [attempts EXCEPT ![key] = @ + 1]
Stored(key, value, r) == IF r.panic THEN stored ELSE [stored EXCEPT ![key] = Append(@, value)]

\* AstCtx::make_symbol
AstMakeSymbol ==
    /\ ~panicked
    /\ Cardinality(DOMAIN astCells) < MaxCells
    /\ LET m == make_id(counter)
       IN  /\ counter' = m.counter
           /\ astCells' = Insert(astCells, m.id, None)
           /\ attempts' = Insert(attempts, <<"ast", m.id>>, 0)
           /\ stored' = Insert(stored, <<"ast", m.id>>, <<>>)
    /\ UNCHANGED <<irCounter, irCells, panicked, expander, result, letIds, macroCells, making, makeResult, macroDefs, arena, types, interned, sized,
                   codegen, writer, emitted,
                   literal,
                   attrs, pass1, cfgs, maker>>

\* ItemCell::assign on a cell of the AST arena
AstAssign(c, value) ==
    /\ ~panicked
    /\ c \in DOMAIN astCells
    /\ LET r == ItemCell_assign(astCells[c], value)
       IN  /\ astCells' = [astCells EXCEPT ![c] = r.contents]
           /\ panicked' = r.panic
           /\ attempts' = Attempted(<<"ast", c>>)
           /\ stored' = Stored(<<"ast", c>>, value, r)
    /\ UNCHANGED <<counter, irCounter, irCells, expander, result, letIds, macroCells, making, makeResult, macroDefs, arena, types, interned, sized,
                   codegen, writer, emitted,
                   literal,
                   attrs, pass1, cfgs, maker>>

\* IrCtx::make_symbol
IrMakeSymbol ==
    /\ ~panicked
    /\ Cardinality(DOMAIN irCells) < MaxCells
    /\ LET m == make_id(irCounter)
       IN  /\ irCounter' = m.counter
           /\ irCells' = Insert(irCells, m.id, None)
           /\ attempts' = Insert(attempts, <<"ir", m.id>>, 0)
           /\ stored' = Insert(stored, <<"ir", m.id>>, <<>>)
    /\ UNCHANGED <<counter, astCells, panicked, expander, result, letIds, macroCells, making, makeResult, macroDefs, arena, types, interned, sized,
                   codegen, writer, emitted,
                   literal,
                   attrs, pass1, cfgs, maker>>

\* IRItemCell::assign on a cell of the IR arena
IrAssign(c, value) ==
    /\ ~panicked
    /\ c \in DOMAIN irCells
    /\ LET r == IRItemCell_assign(irCells[c], value)
       IN  /\ irCells' = [irCells EXCEPT ![c] = r.contents]
           /\ panicked' = r.panic
           /\ attempts' = Attempted(<<"ir", c>>)
           /\ stored' = Stored(<<"ir", c>>, value, r)
    /\ UNCHANGED <<counter, astCells, irCounter, expander, result, letIds, macroCells, making, makeResult, macroDefs, arena, types, interned, sized,
                   codegen, writer, emitted,
                   literal,
                   attrs, pass1, cfgs, maker>>


\* ---------------------------------------------------------------- macro expander
\* An expander in flight is a record x: the fields of MacroExpander (macro,
\* args, invocation_span, replacements, id_replacements, et_cetera_arg,
\* et_cetera_index), the counter of the AstCtx it shares (self.ast), and
\* history: eid names the expander instance, serial counts the instances
\* made, depth counts the splices whose copies are being produced, visits
\* counts the calls of visit_expr, log lists the visits of locals, splices
\* and let-declarations.

\* The macro items that invocations inside a body refer to (ItemCell::get).
\*   wrap($x...) { [$x...] }      inc($x) { let y = $x; y + 1 }      line!()
\*   pair($a, $b) { let t = $a; (t, $b) }    bind!    reduce!
ItemOf(id) ==
    CASE id = WrapItem -> MacroItem(<<Param(WrapX, TRUE)>>, Some(Array(<<EtCetera(Local(WrapX))>>)))
      [] id = IncItem -> MacroItem(<<Param(IncX, FALSE)>>,
                            Some(Block(<<LetDeclaration(IncY, Some(Local(IncX)))>>,
                                       Binary(Local(IncY), Lit(1)))))
      [] id = LineItem -> BuiltinItem("Line")
      [] id = PairItem -> MacroItem(<<Param(PairA, FALSE), Param(PairB, FALSE)>>,
                             Some(Block(<<LetDeclaration(PairT, Some(Local(PairA)))>>,
                                        Tuple(<<Local(PairT), Local(PairB)>>))))
      [] id = BindItem -> BuiltinItem("Bind")
      [] id = ReduceItem -> BuiltinItem("Reduce")

\* MacroExpander::new
MacroExpander_new(span, macro, arguments) ==
    [macro |-> macro, args |-> arguments, invocation_span |-> span,
     replacements |-> EmptyMap, id_replacements |-> EmptyMap,
     et_cetera_arg |-> None, et_cetera_index |-> None]

\* The expander e set to work beside the context of x (the shared AstCtx and
\* the history), as instance number x.serial.
InContext(e, x) ==
    [macro |-> e.macro, args |-> e.args, invocation_span |-> e.invocation_span,
     replacements |-> e.replacements, id_replacements |-> e.id_replacements,
     et_cetera_arg |-> e.et_cetera_arg, et_cetera_index |-> e.et_cetera_index,
     counter |-> x.counter, log |-> x.log, eid |-> x.serial,
     serial |-> x.serial + 1, depth |-> 0, visits |-> x.visits]

\* Back in expander x after a child expander ended in state c.
Returned(x, c) ==
    [x EXCEPT !.counter = c.counter, !.log = c.log, !.serial = c.serial, !.visits = c.visits]

\* The id of the et-cetera parameter x is bound to (et_cetera_arg.map(|v| v.0)).
EtCeteraId(x) == IF x.et_cetera_arg = None THEN None ELSE Some(Unwrap(x.et_cetera_arg).id)

Event(k, id, x, r, nid) ==
    [k |-> k, id |-> id, eid |-> x.eid, idx |-> x.et_cetera_index, depth |-> x.depth,
     isEtc |-> EtCeteraId(x) = Some(id), isParam |-> id \in DOMAIN x.replacements,
     ok |-> r.ok, err |-> r.err.kind, out |-> IF k = "Local" THEN r.v ELSE NoNode,
     nid |-> nid]
Logged(r, ev) == [r EXCEPT !.x.log = Append(@, ev)]

\* expand_regular, line 212: position of the et-cetera parameter
et_cetera_position(params) ==
    IF \E i \in 1..Len(params) : params[i].et_cetera
    THEN Some((CHOOSE i \in 1..Len(params) :
                  /\ params[i].et_cetera
                  /\ \A j \in 1..(i - 1) : ~params[j].et_cetera) - 1)
    ELSE None

\* expand_regular, line 215: too few arguments for a macro with an et cetera
not_enough_Strict(M, N) == M < N
not_enough(M, N) == M < N - 1

\* expand_regular, line 227: the arguments the et-cetera parameter is bound to
etc_slice_Short(args, k, etc_count) ==
    SubSeq(args, k + 1, k + etc_count - 1)
etc_slice(args, k, etc_count) ==
    SubSeq(args, k + 1, k + etc_count)

\* expand_regular, line 231: index of the argument of parameter i after the et cetera
trailing_arg_index_One(i, etc_count) == IF etc_count >= 1 THEN i ELSE i - 1
trailing_arg_index(i, etc_count) == i + etc_count - 1

\* expand_regular, lines 212-247: the argument check and the bindings
bind_args(m, args, span) ==
    LET N == Len(m.args)
        M == Len(args)
        pos == et_cetera_position(m.args)
        Bound(is, at(_)) ==
            [id \in {m.args[i + 1].id : i \in is} |->
                LET i == CHOOSE i \in is : m.args[i + 1].id = id IN args[at(i) + 1]]
    IN  IF pos # None
        THEN IF not_enough(M, N)
             THEN [ok |-> FALSE, err |-> Error("NotEnoughMacroArguments", N - 1, 0, span),
                   replacements |-> EmptyMap, et_cetera_arg |-> None]
             ELSE LET k == Unwrap(pos)
                      etc_count == M + 1 - N
                      at(i) == IF i < k THEN i ELSE trailing_arg_index(i, etc_count)
                  IN  [ok |-> TRUE, err |-> NoError,
                       replacements |-> Bound((0..(N - 1)) \ {k}, at),
                       et_cetera_arg |->
                           Some([id |-> m.args[k + 1].id, args |-> etc_slice(args, k, etc_count)])]
        ELSE IF M # N
             THEN [ok |-> FALSE, err |-> Error("ParamCountMismatch", N, M, span),
                   replacements |-> EmptyMap, et_cetera_arg |-> None]
             ELSE LET at(i) == i
                  IN  [ok |-> TRUE, err |-> NoError,
                       replacements |-> Bound(0..(N - 1), at), et_cetera_arg |-> None]

\* expand_args line 262 / visit_expr line 404: the splice index installed
Install_First(x, idx) == [x EXCEPT !.et_cetera_index = Some(0)]
Install(x, idx) == [x EXCEPT !.et_cetera_index = Some(idx)]
\* expand_args line 265 / visit_expr line 410: the splice index uninstalled
Uninstall_Keep(x) == x
Uninstall(x) == [x EXCEPT !.et_cetera_index = None]

\* visit_expr, lines 378-384: a local that is no parameter, renamed if it was declared
renamed_Never(x, id) == id
renamed(x, id) == IF id \in DOMAIN x.id_replacements THEN x.id_replacements[id] ELSE id

\* visit_expr, lines 522-527: the node freshly produced for an expression
Produced(k, id, ch, x) == Ok(Node(k, id, ch, x.invocation_span), x)

\* visit_expr, lines 368-388: Local(id)
visit_local(x, expr) ==
    IF expr.id \in DOMAIN x.replacements
    THEN Ok(x.replacements[expr.id], x)
    ELSE IF EtCeteraId(x) = Some(expr.id)
    THEN IF x.et_cetera_index # None
         THEN Ok(Unwrap(x.et_cetera_arg).args[Unwrap(x.et_cetera_index) + 1], x)
         ELSE Err(Error("CannotEtCeteraHere", 0, 0, expr.span), x)
    ELSE Produced("Local", renamed(x, expr.id), <<>>, x)

\* The functions of the expander call one another recursively.  Every such
\* call goes through Rec, which names the function called and hands it its
\* arguments (a to e, 0 where it takes fewer).
RECURSIVE Rec(_, _, _, _, _, _)

\* expand_args, lines 261-264: the copies idx.. of one splice, pushed to new_args
splice_from(x, inner, idx, new_args) ==
    IF idx >= Len(Unwrap(x.et_cetera_arg).args)
    THEN Ok(new_args, x)
    ELSE LET r == Rec("visit_expr", Install(x, idx), inner, 0, 0, 0)
         IN  IF ~r.ok THEN r ELSE Rec("splice_from", r.x, inner, idx + 1, Append(new_args, r.v), 0)

\* expand_args, lines 256-269: the arguments from position i on (1-based)
expand_args_from(x, args, i, new_args) ==
    IF i > Len(args)
    THEN Ok(new_args, x)
    ELSE LET arg == args[i]
         IN  IF arg.k = "EtCetera"
             THEN LET s == IF x.et_cetera_index # None
                           THEN Err(Error("EtCeteraInEtCetera", 0, 0, arg.span), x)
                           ELSE IF x.et_cetera_arg = None
                           THEN Err(Error("Panic", 0, 0, NoSpan), x)
                           ELSE Rec("splice_from", [x EXCEPT !.depth = @ + 1], arg.ch[1], 0, new_args, 0)
                      r == Logged(s, Event("Splice", 0, x, s, 0))
                  IN  IF ~r.ok
                      THEN r
                      ELSE Rec("expand_args_from", Uninstall([r.x EXCEPT !.depth = @ - 1]),
                                            args, i + 1, r.v, 0)
             ELSE LET r == Rec("visit_expr", x, arg, 0, 0, 0)
                  IN  IF ~r.ok
                      THEN r
                      ELSE Rec("expand_args_from", r.x, args, i + 1, Append(new_args, r.v), 0)

\* expand_args, lines 252-272
expand_args(x, args) == Rec("expand_args_from", x, args, 1, <<>>, 0)

\* visit_expr, lines 403-409: the statements of the copies idx.. of one splice
block_splice_from(x, inner, span, idx, new_statements) ==
    IF idx >= Len(Unwrap(x.et_cetera_arg).args)
    THEN Ok(new_statements, x)
    ELSE LET r == Rec("visit_expr", Install(x, idx), inner, 0, 0, 0)
         IN  IF ~r.ok
             THEN r
             ELSE Rec("block_splice_from", r.x, inner, span, idx + 1,
                      Append(new_statements, Node("Expression", 0, <<r.v>>, span)))

\* visit_expr, lines 393-414: the statements of a block from position i on
block_from(x, statements, i, new_statements) ==
    IF i > Len(statements)
    THEN Ok(new_statements, x)
    ELSE LET statement == statements[i]
         IN  IF statement.k = "Expression" /\ statement.ch[1].k = "EtCetera"
             THEN LET e == statement.ch[1]
                      s == IF x.et_cetera_index # None
                           THEN Err(Error("EtCeteraInEtCetera", 0, 0, e.span), x)
                           ELSE IF x.et_cetera_arg = None
                           THEN Err(Error("Panic", 0, 0, NoSpan), x)
                           ELSE Rec("block_splice_from", [x EXCEPT !.depth = @ + 1], e.ch[1],
                                                  e.span, 0, new_statements)
                      r == Logged(s, Event("Splice", 0, x, s, 0))
                  IN  IF ~r.ok
                      THEN r
                      ELSE Rec("block_from", Uninstall([r.x EXCEPT !.depth = @ - 1]),
                                      statements, i + 1, r.v, 0)
             ELSE LET r == Rec("visit_stmt", x, statement, 0, 0, 0)
                  IN  IF ~r.ok
                      THEN r
                      ELSE Rec("block_from", r.x, statements, i + 1, Append(new_statements, r.v), 0)

\* visit_expr, lines 430-439: the field initializers from position i on
struct_from_Skip(x, inits, i, new_inits) ==
    IF i > Len(inits)
    THEN Ok(new_inits, x)
    ELSE IF inits[i].ch[1].k = "EtCetera"
    THEN Rec("struct_from", x, inits, i + 1, new_inits, 0)
    ELSE LET r == Rec("visit_expr", x, inits[i].ch[1], 0, 0, 0)
         IN  IF ~r.ok
             THEN r
             ELSE Rec("struct_from", r.x, inits, i + 1,
                      Append(new_inits,
                             Node("FieldInitializer", inits[i].id, <<r.v>>, r.x.invocation_span)), 0)
struct_from(x, inits, i, new_inits) ==
    IF i > Len(inits)
    THEN Ok(new_inits, x)
    ELSE LET r == Rec("visit_expr", x, inits[i].ch[1], 0, 0, 0)
         IN  IF ~r.ok
             THEN r
             ELSE Rec("struct_from", r.x, inits, i + 1,
                      Append(new_inits,
                             Node("FieldInitializer", inits[i].id, <<r.v>>, r.x.invocation_span)), 0)

\* visit_expr, lines 417-427, 443-459: operands visited one after the other
visit_from(x, operands, i, visited) ==
    IF i > Len(operands)
    THEN Ok(visited, x)
    ELSE LET r == Rec("visit_expr", x, operands[i], 0, 0, 0)
         IN  IF ~r.ok THEN r ELSE Rec("visit_from", r.x, operands, i + 1, Append(visited, r.v), 0)

\* assert_args!, lines 22-30
assert_args(x, count) ==
    IF Len(x.args) # count
    THEN Err(Error("ParamCountMismatch", count, Len(x.args), x.invocation_span), x)
    ELSE Ok(NoNode, x)

\* string_arg!, lines 32-42, and macro_arg!, lines 44-54: self.args[index]
\* panics when there is no such argument
typed_arg(x, index, kind, error) ==
    IF index >= Len(x.args)
    THEN Err(Error("Panic", 0, 0, NoSpan), x)
    ELSE IF x.args[index + 1].k # kind
    THEN Err(Error(error, 0, 0, x.invocation_span), x)
    ELSE Ok(x.args[index + 1], x)
string_arg(x, index) == typed_arg(x, index, "LitStr", "ConstantStringExpected")
macro_arg(x, index) == typed_arg(x, index, "Macro", "MacroExpected")

\* The length of a string and the concatenation of two (strings of decimal
\* digits, written as numbers).
RECURSIVE StrLen(_)
StrLen(s) == IF s = 0 THEN 0 ELSE 1 + StrLen(s \div 10)
RECURSIVE Shift(_, _)
Shift(s, n) == IF n = 0 THEN s ELSE Shift(s * 10, n - 1)
StrConcat(s, t) == Shift(s, StrLen(t)) + t

\* The process environment (std::env::var) and the files std::fs::read
\* finds: variable "1" has the value "2", file "1" holds the bytes "12".
EnvVar(name) == IF name = 1 THEN Some(2) ELSE None
FileData(name) == IF name = 1 THEN Some(12) ELSE None

\* expand_builtin, lines 646-654: the strings of concat!'s arguments from i on
RECURSIVE concat_from(_, _, _)
concat_from(x, i, value) ==
    IF i > Len(x.args)
    THEN Ok(Node("LitStr", value, <<>>, x.invocation_span), x)
    ELSE IF x.args[i].k # "LitStr"
    THEN Err(Error("ConstantStringExpected", 0, 0, x.invocation_span), x)
    ELSE concat_from(x, i + 1, StrConcat(value, x.args[i].id))

\* expand_builtin, lines 723-724: the bound arguments of bind!'s result
bound_with_Swapped(prev_bound_args, args) == Tail(args) \o prev_bound_args
bound_with(prev_bound_args, args) == prev_bound_args \o Tail(args)

\* expand_builtin, lines 744-746: the arguments of one step of reduce!
fold_args_Swapped(bound_args, expr, arg) == bound_args \o <<arg, expr>>
fold_args(bound_args, expr, arg) == bound_args \o <<expr, arg>>

\* expand_builtin, lines 743-755: reduce!'s fold from argument i on
reduce_from(x, f, expr, i) ==
    IF i > Len(x.args)
    THEN Ok(expr, x)
    ELSE LET child == MacroExpander_new(x.invocation_span, ItemOf(f.id),
                                        fold_args(f.ch, expr, x.args[i]))
             r == Rec("expand", InContext(child, x), 0, 0, 0, 0)
         IN  IF ~r.ok
             THEN [r EXCEPT !.x = Returned(x, r.x)]
             ELSE Rec("reduce_from", Returned(x, r.x), f, r.v, i + 1, 0)

\* MacroExpander::expand_builtin, lines 557-760.  format_args! is followed
\* up to the point where the format string is cut into pieces.
expand_builtin(x, kind) ==
    CASE kind = "Stringify" ->
           \* an integer literal prints as its digits
           LET a == assert_args(x, 1)
           IN  IF ~a.ok THEN a ELSE Ok(Node("LitStr", x.args[1].id, <<>>, x.invocation_span), x)
      [] kind = "Env" ->
           LET a == assert_args(x, 1)
               name == string_arg(x, 0)
           IN  IF ~a.ok THEN a
               ELSE IF ~name.ok THEN name
               ELSE IF EnvVar(name.v.id) = None THEN Err(Error("Panic", 0, 0, NoSpan), x)
               ELSE Ok(Node("LitStr", Unwrap(EnvVar(name.v.id)), <<>>, x.invocation_span), x)
      [] kind \in {"Line", "Column"} ->
           IF x.invocation_span = NoSpan
           THEN Err(Error("NoSpanInformation", 0, 0, x.invocation_span), x)
           ELSE Ok(Node("Lit", IF kind = "Line"
                               THEN x.invocation_span.line + 1
                               ELSE x.invocation_span.column + 1,
                        <<>>, x.invocation_span), x)
      [] kind = "File" ->
           LET a == assert_args(x, 0)
           IN  IF ~a.ok THEN a
               ELSE IF x.invocation_span = NoSpan
               THEN Err(Error("NoSpanInformation", 0, 0, x.invocation_span), x)
               ELSE Ok(Node("LitStr", 1, <<>>, x.invocation_span), x)
      [] kind = "IncludeBytes" ->
           LET filename == string_arg(x, 0)
           IN  IF ~filename.ok THEN filename
               ELSE IF FileData(filename.v.id) = None
               THEN Err(Error("CannotReadFile", filename.v.id, 0, x.invocation_span), x)
               ELSE Ok(Node("LitStr", Unwrap(FileData(filename.v.id)), <<>>, x.invocation_span), x)
      [] kind = "Concat" -> concat_from(x, 1, 0)
      [] kind = "FormatArgs" ->
           IF Len(x.args) < 2
           THEN Err(Error("NotEnoughMacroArguments", 2, 0, x.invocation_span), x)
           ELSE LET wrapper == macro_arg(x, 0)
                    fmt_string == string_arg(x, 1)
                IN  IF ~wrapper.ok THEN wrapper ELSE fmt_string
      [] kind = "Bind" ->
           IF Len(x.args) = 0
           THEN Err(Error("NotEnoughMacroArguments", 1, 0, x.invocation_span), x)
           ELSE LET bindee == macro_arg(x, 0)
                IN  IF ~bindee.ok
                    THEN bindee
                    ELSE Ok(Node("Macro", bindee.v.id, bound_with(bindee.v.ch, x.args),
                                 x.invocation_span), x)
      [] kind = "Reduce" ->
           IF Len(x.args) < 2
           THEN Err(Error("NotEnoughMacroArguments", 2, 0, x.invocation_span), x)
           ELSE LET f == macro_arg(x, 0)
                IN  IF ~f.ok THEN f ELSE Rec("reduce_from", x, f.v, x.args[2], 3, 0)

\* expand_regular, lines 209-250
expand_regular(x) ==
    LET b == bind_args(x.macro, x.args, x.invocation_span)
    IN  IF ~b.ok
        THEN Err(b.err, x)
        ELSE IF x.macro.body = None
        THEN Err(Error("Panic", 0, 0, NoSpan), x)
        ELSE Rec("visit_expr", [x EXCEPT !.replacements = b.replacements,
                                  !.et_cetera_arg = b.et_cetera_arg],
                        Unwrap(x.macro.body), 0, 0, 0)

\* MacroExpander::expand, lines 201-207
expand(x) ==
    CASE x.macro.kind = "Macro" -> expand_regular(x)
      [] x.macro.kind = "BuiltinMacro" -> expand_builtin(x, x.macro.bk)
      [] OTHER -> Err(Error("Panic", 0, 0, NoSpan), x)

\* visit_expr, lines 348-366: MacroInvocation(inner, args)
visit_macro_invocation(x, expr) ==
    LET inner == Rec("visit_expr", x, expr.ch[1], 0, 0, 0)
    IN  IF ~inner.ok
        THEN inner
        ELSE IF inner.v.k # "Macro"
        THEN Err(Error("NotAMacro", 0, 0, inner.v.span), inner.x)
        ELSE LET a == expand_args(inner.x, Tail(expr.ch))
             IN  IF ~a.ok
                 THEN a
                 ELSE LET child == MacroExpander_new(a.x.invocation_span, ItemOf(inner.v.id),
                                                     inner.v.ch \o a.v)
                          r == Rec("expand", InContext(child, a.x), 0, 0, 0, 0)
                      IN  [r EXCEPT !.x = Returned(a.x, r.x)]

\* visit_expr, lines 340-528, by the kind of the expression
visit_kind(x, expr) ==
    CASE expr.k = "Call" ->
           LET callee == Rec("visit_expr", x, expr.ch[1], 0, 0, 0)
           IN  IF ~callee.ok
               THEN callee
               ELSE LET a == expand_args(callee.x, Tail(expr.ch))
                    IN  IF ~a.ok THEN a ELSE Produced("Call", 0, <<callee.v>> \o a.v, a.x)
      [] expr.k \in {"Tuple", "Array"} ->
           LET a == expand_args(x, expr.ch)
           IN  IF ~a.ok THEN a ELSE Produced(expr.k, 0, a.v, a.x)
      [] expr.k = "MacroInvocation" -> visit_macro_invocation(x, expr)
      [] expr.k = "Local" -> visit_local(x, expr)
      [] expr.k = "EtCetera" -> Err(Error("CannotEtCeteraHere", 0, 0, expr.span), x)
      [] expr.k = "Block" ->
           LET s == Rec("block_from", x, SubSeq(expr.ch, 1, Len(expr.ch) - 1), 1, <<>>, 0)
           IN  IF ~s.ok
               THEN s
               ELSE LET ret == Rec("visit_expr", s.x, expr.ch[Len(expr.ch)], 0, 0, 0)
                    IN  IF ~ret.ok THEN ret ELSE Produced("Block", 0, Append(s.v, ret.v), ret.x)
      [] expr.k = "Struct" ->
           LET inits == Rec("struct_from", x, expr.ch, 1, <<>>, 0)
           IN  IF ~inits.ok THEN inits ELSE Produced("Struct", 0, inits.v, inits.x)
      [] expr.k \in {"Binary", "Ref", "Deref", "Unary", "Assign", "Loop", "Defer", "Index", "If"} ->
           LET o == Rec("visit_from", x, expr.ch, 1, <<>>, 0)
           IN  IF ~o.ok THEN o ELSE Produced(expr.k, expr.id, o.v, o.x)
      [] OTHER -> Produced(expr.k, expr.id, expr.ch, x)

\* visit_expr, lines 340-528; the visits of locals and of splices outside a
\* list position are entered in the log
visit_expr(x, expr) ==
    LET r == Rec("visit_kind", [x EXCEPT !.visits = @ + 1], expr, 0, 0, 0)
    IN  IF expr.k \in {"Local", "EtCetera"} THEN Logged(r, Event(expr.k, expr.id, x, r, 0)) ELSE r

\* visit_stmt, lines 530-555
visit_stmt(x, stmt) ==
    IF stmt.k = "Expression"
    THEN LET r == Rec("visit_expr", x, stmt.ch[1], 0, 0, 0)
         IN  IF ~r.ok THEN r ELSE Ok(Node("Expression", 0, <<r.v>>, r.x.invocation_span), r.x)
    ELSE LET replacement == make_id(x.counter)
             x1 == [x EXCEPT !.counter = replacement.counter,
                             !.id_replacements = Insert(@, stmt.id, replacement.id)]
             x2 == [x1 EXCEPT !.log = Append(@, Event("LetDeclaration", stmt.id, x, Ok(NoNode, x),
                                                      replacement.id))]
             value == Rec("visit_from", x2, stmt.ch, 1, <<>>, 0)
         IN  IF ~value.ok
             THEN value
             ELSE Ok(Node("LetDeclaration", replacement.id, value.v, value.x.invocation_span),
                     value.x)


\* The function named f applied to its arguments.
Rec(f, a, b, c, d, e) ==
    CASE f = "visit_expr" -> visit_expr(a, b)
      [] f = "visit_kind" -> visit_kind(a, b)
      [] f = "visit_stmt" -> visit_stmt(a, b)
      [] f = "expand" -> expand(a)
      [] f = "expand_args_from" -> expand_args_from(a, b, c, d)
      [] f = "splice_from" -> splice_from(a, b, c, d)
      [] f = "block_from" -> block_from(a, b, c, d)
      [] f = "block_splice_from" -> block_splice_from(a, b, c, d, e)
      [] f = "struct_from" -> struct_from(a, b, c, d)
      [] f = "visit_from" -> visit_from(a, b, c, d)
      [] f = "reduce_from" -> reduce_from(a, b, c, d)

\* ---------------------------------------------------------------- the macros expanded
\* The parameter lists MacroMaker::make lets through (lines 118-137): at most
\* one parameter is an et cetera.  The parameter at position i has id i.
Shapes ==
    {s \in UNION {[1..n -> BOOLEAN] : n \in 0..MaxParams} :
        \A i, j \in 1..Len(s) : (s[i] /\ s[j]) => i = j}
Params(shape) == [i \in 1..Len(shape) |-> Param(i, shape[i])]
HasEtCetera(shape) == \E i \in 1..Len(shape) : shape[i]
EtcOf(shape) == CHOOSE i \in 1..Len(shape) : shape[i]

\* What is written under a splice `...` in the bodies expanded.
Inner(e) ==
    { Local(e), Lit(0), Binary(Local(e), Lit(0)),
      Tuple(<<EtCetera(Local(e))>>), EtCetera(Local(e)),
      Block(<<LetDeclaration(LetId1, Some(Local(e)))>>, Local(LetId1)),
      MacroInvocation(MacroRef(WrapItem, <<>>), <<EtCetera(Local(e))>>) }

\* The elements of the lists in the bodies expanded.  A body holds a splice
\* only when its macro has an et-cetera parameter (MacroCtx::for_macro, line 152).
Elements(shape) ==
    {Lit(0)} \cup {Local(i) : i \in 1..Len(shape)}
    \cup (IF HasEtCetera(shape) THEN {EtCetera(i) : i \in Inner(EtcOf(shape))} ELSE {})
ElementLists(shape) ==
    {<<>>} \cup {<<a>> : a \in Elements(shape)}
    \cup {<<Lit(1), a, Lit(2)>> : a \in Elements(shape)}
    \cup (IF HasEtCetera(shape)
          THEN {<<a, b>> : a \in {EtCetera(i) : i \in Inner(EtcOf(shape))},
                           b \in {Local(EtcOf(shape)), EtCetera(Local(EtcOf(shape)))}}
          ELSE {})

Statements(l) == [i \in 1..Len(l) |-> Expression(l[i])]
Initializers(l) == [i \in 1..Len(l) |-> FieldInitializer(i, l[i])]

ListBodies(shape) ==
    UNION {{ Tuple(l), Array(l), Call(Local(CapturedId), l),
             MacroInvocation(MacroRef(WrapItem, <<>>), l),
             Block(Statements(l), Void), Struct(Initializers(l)) } : l \in ElementLists(shape)}

\* Bodies that declare locals, invoke other macros, or splice outside a list.
OtherBodies(shape) ==
    LET p == Local(Len(shape))
        y == Local(LetId1)
        z == Local(LetId2)
    IN  { Block(<<LetDeclaration(LetId1, Some(p))>>, Binary(y, Lit(1))),
          Block(<<Expression(y), LetDeclaration(LetId1, None), Expression(y)>>, y),
          Block(<<LetDeclaration(LetId1, Some(Lit(0))), LetDeclaration(LetId2, Some(y))>>,
                Binary(y, z)),
          Block(<<LetDeclaration(LetId1, Some(y)),
                  Expression(Block(<<LetDeclaration(LetId1, Some(y))>>, y))>>, y),
          Binary(MacroInvocation(MacroRef(IncItem, <<>>), <<p>>),
                 MacroInvocation(MacroRef(IncItem, <<>>), <<Lit(4)>>)),
          MacroInvocation(MacroRef(LineItem, <<>>), <<>>),
          MacroInvocation(Lit(0), <<>>),
          Binary(p, Local(CapturedId)), p }
    \cup (IF HasEtCetera(shape)
          THEN { Binary(EtCetera(Local(EtcOf(shape))), Lit(0)),
                 Tuple(<<EtCetera(Binary(EtCetera(Local(EtcOf(shape))), Lit(0)))>>) }
          ELSE {})

Bodies(shape) == ListBodies(shape) \cup OtherBodies(shape)

Range(seq) == {seq[i] : i \in 1..Len(seq)}
RECURSIVE Concat(_)
Concat(seqs) == IF seqs = <<>> THEN <<>> ELSE Head(seqs) \o Concat(Tail(seqs))

\* The ids of the let-declarations of a tree, in source order.
RECURSIVE LetSeq(_)
LetSeq(n) ==
    (IF n.k = "LetDeclaration" THEN <<n.id>> ELSE <<>>)
    \o Concat([i \in 1..Len(n.ch) |-> LetSeq(n.ch[i])])
LetIdsIn(n) == Range(LetSeq(n))

\* ---------------------------------------------------------------- expansion
\* MacroExpander::new for an invocation, at `span`, of a macro with the
\* parameters of `shape` and the body `body`, on M arguments.
New(shape, body, M, span) ==
    /\ expander' = Some(MacroExpander_new(span, MacroItem(Params(shape), Some(body)), Args(M)))
    /\ result' = None
    /\ UNCHANGED <<counter, astCells, irCounter, irCells, panicked, attempts, stored, letIds, macroCells, making, makeResult, macroDefs, arena, types, interned, sized,
                   codegen, writer, emitted,
                   literal,
                   attrs, pass1, cfgs, maker>>

\* MacroExpander::expand
Expand ==
    /\ ~panicked
    /\ expander # None
    /\ result = None
    /\ LET x == InContext(Unwrap(expander), [counter |-> counter, log |-> <<>>, serial |-> 0, visits |-> 0])
           r == expand(x)
       IN  /\ result' = Some([ok |-> r.ok, v |-> r.v, err |-> r.err, x |-> r.x,
                              start |-> counter, before |-> letIds])
           /\ counter' = r.x.counter
           /\ letIds' = letIds \cup (IF r.ok THEN LetIdsIn(r.v) ELSE {})
           /\ panicked' = (r.err.kind = "Panic")
    /\ UNCHANGED <<expander, astCells, irCounter, irCells, attempts, stored, macroCells, making, makeResult, macroDefs, arena, types, interned, sized,
                   codegen, writer, emitted,
                   literal,
                   attrs, pass1, cfgs, maker>>

\* expand takes the expander by value (line 201): once it has returned, the
\* expander is gone and the result is with the caller.
Drop ==
    /\ ~panicked
    /\ expander # None
    /\ result # None
    /\ expander' = None
    /\ result' = None
    /\ UNCHANGED <<counter, astCells, irCounter, irCells, panicked, attempts, stored, letIds, macroCells, making, makeResult, macroDefs, arena, types, interned, sized,
                   codegen, writer, emitted,
                   literal,
                   attrs, pass1, cfgs, maker>>

\* An invocation is met: no expander is at work, and the ids are not used up.
Invoke ==
    /\ ~panicked
    /\ expander = None
    /\ counter - FirstFreeId < MaxMinted
    /\ \E shape \in Shapes, M \in 0..MaxArgs :
          \E body \in Bodies(shape) : New(shape, body, M, InvocationSpan)

\* ---------------------------------------------------------------- macro maker
MacroSymbols == 1..MaxMacros

\* MacroMaker::make, lines 92-108: the names of the built-in macros
BuiltinKindOf(name) ==
    CASE name = "env" -> "Env"
      [] name = "include_bytes" -> "IncludeBytes"
      [] name = "concat" -> "Concat"
      [] name = "line" -> "Line"
      [] name = "column" -> "Column"
      [] name = "file" -> "File"
      [] name = "format_args" -> "FormatArgs"
      [] name = "bind" -> "Bind"
      [] name = "reduce" -> "Reduce"
      [] name = "stringify" -> "Stringify"
      [] OTHER -> ""

\* The definitions make is handed: the Builtin attribute, the name, and the
\* macro parameters of the scope (TRUE: an et cetera), of which the body
\* makes a tuple.
Definition(builtin, name, shape) == [builtin |-> builtin, name |-> name, shape |-> shape]
Definitions ==
    {Definition(TRUE, n, <<>>) : n \in {"line", "column", "lines"}}
    \cup {Definition(FALSE, "m", s) : s \in UNION {[1..n -> BOOLEAN] : n \in 0..2}}
BodyOf(d) ==
    Tuple([i \in 1..Len(d.shape) |-> IF d.shape[i] THEN EtCetera(Local(i)) ELSE Local(i)])

\* What a make call returned; history: the call was made for a symbol whose
\* make was under way.
Made(symbol) == [symbol |-> symbol, ok |-> TRUE, err |-> "", reentered |-> FALSE]
NotMade(symbol, err) == [symbol |-> symbol, ok |-> FALSE, err |-> err, reentered |-> FALSE]

\* ItemCell::try_get: the contents, None while the cell is unassigned
try_get_Unassigned(contents) == None
try_get(contents) == contents

\* MacroMaker::make, lines 71-146, on a cell with these contents: the cell
\* afterwards, whether assign panicked, what make returned (None: it went on
\* to generate the body).
make_enter(symbol, contents, d) ==
    IF try_get(contents) # None
    THEN [contents |-> contents, panic |-> FALSE,
          returned |-> IF Unwrap(contents).kind = "Macro" /\ Unwrap(contents).body = None
                       THEN Some(NotMade(symbol, "RecursiveMacroCall"))
                       ELSE Some(Made(symbol))]
    ELSE IF d.builtin
    THEN IF BuiltinKindOf(d.name) = ""
         THEN [contents |-> contents, panic |-> FALSE,
               returned |-> Some(NotMade(symbol, "UnknownBuiltinMacro"))]
         ELSE LET a == ItemCell_assign(contents, BuiltinItem(BuiltinKindOf(d.name)))
              IN  [contents |-> a.contents, panic |-> a.panic, returned |-> Some(Made(symbol))]
    ELSE IF \E i, j \in 1..Len(d.shape) : i < j /\ d.shape[i] /\ d.shape[j]
    THEN [contents |-> contents, panic |-> FALSE,
          returned |-> Some(NotMade(symbol, "MultipleEtCeteras"))]
    ELSE LET a == ItemCell_assign(contents, MacroItem(Params(d.shape), None))
         IN  [contents |-> a.contents, panic |-> a.panic, returned |-> None]

\* MacroMaker::make is called for `symbol`, by the item maker or, while a
\* body is generated, for a macro the body names.  A symbol keeps the
\* definition it was first seen with.
MakeEnter(symbol, d) ==
    /\ ~panicked
    /\ expander = None
    /\ macroDefs[symbol] \in {None, Some(d)}
    /\ LET r == make_enter(symbol, macroCells[symbol], d)
       IN  /\ macroCells' = [macroCells EXCEPT ![symbol] = r.contents]
           /\ panicked' = r.panic
           /\ makeResult' = IF r.returned = None
                            THEN None
                            ELSE Some([Unwrap(r.returned) EXCEPT
                                          !.reentered = symbol \in Range(making)])
           /\ making' = IF r.returned = None /\ ~r.panic THEN Append(making, symbol) ELSE making
    /\ macroDefs' = [macroDefs EXCEPT ![symbol] = Some(d)]
    /\ UNCHANGED <<counter, astCells, irCounter, irCells, attempts, stored, expander, result, letIds, arena, types, interned, sized,
                   codegen, writer, emitted,
                   literal,
                   attrs, pass1, cfgs, maker>>

\* MacroMaker::make, lines 148-161: the body was generated; it is set.
MakeFinish ==
    /\ ~panicked
    /\ expander = None
    /\ making # <<>>
    /\ IF makeResult = None THEN TRUE ELSE Unwrap(makeResult).ok
    /\ LET symbol == making[Len(making)]
           item == Unwrap(macroCells[symbol])
           b == OnceCell_set(item.body, BodyOf(Unwrap(macroDefs[symbol])))
       IN  /\ macroCells' = [macroCells EXCEPT ![symbol] = Some([item EXCEPT !.body = b.contents])]
           /\ panicked' = ~b.ok
           /\ makeResult' = Some(Made(symbol))
    /\ making' = SubSeq(making, 1, Len(making) - 1)
    /\ UNCHANGED <<counter, astCells, irCounter, irCells, attempts, stored, expander, result,
                   letIds, macroDefs, arena, types, interned, sized,
                   codegen, writer, emitted,
                   literal,
                   attrs, pass1, cfgs, maker>>

\* MacroMaker::make, line 154: generating the body failed (with the error of
\* a make call inside it, or one of its own); make returns the error.
MakeAbort ==
    /\ ~panicked
    /\ expander = None
    /\ making # <<>>
    /\ makeResult' = Some(NotMade(making[Len(making)],
                                  IF makeResult # None /\ ~Unwrap(makeResult).ok
                                  THEN Unwrap(makeResult).err
                                  ELSE "InBody"))
    /\ making' = SubSeq(making, 1, Len(making) - 1)
    /\ UNCHANGED <<counter, astCells, irCounter, irCells, panicked, attempts, stored, expander,
                   result, letIds, macroCells, macroDefs, arena, types, interned, sized,
                   codegen, writer, emitted,
                   literal,
                   attrs, pass1, cfgs, maker>>

\* An invocation of the macro behind `symbol` on M arguments is met.
InvokeMade(symbol, M) ==
    /\ ~panicked
    /\ expander = None
    /\ expander' = Some(MacroExpander_new(InvocationSpan,
                                          IF macroCells[symbol] = None
                                          THEN NoItem
                                          ELSE Unwrap(macroCells[symbol]),
                                          Args(M)))
    /\ result' = None
    /\ UNCHANGED <<counter, astCells, irCounter, irCells, panicked, attempts, stored, letIds,
                   macroCells, macroDefs, making, makeResult, arena, types, interned, sized,
                   codegen, writer, emitted,
                   literal,
                   attrs, pass1, cfgs, maker>>

\* ---------------------------------------------------------------- built-in macros
BuiltinKinds ==
    {"Stringify", "Env", "Line", "Column", "File", "IncludeBytes", "Concat",
     "FormatArgs", "Bind", "Reduce"}

\* The arguments built-in macros are invoked on: an integer literal, two
\* strings, a reference to pair and a reference to wrap with a bound argument.
BuiltinArgs ==
    {Arg(0), Str(1), Str(2), MacroRef(PairItem, <<>>), MacroRef(WrapItem, <<Arg(3)>>)}
ArgLists == UNION {[1..n -> BuiltinArgs] : n \in 0..MaxArgs}

\* An invocation of a built-in macro is met.  Left out: stringify! of what
\* is no integer literal (the pretty printer is not modelled), and
\* format_args! on a macro and a string (cutting the string is not modelled).
NewBuiltin(kind, args) ==
    /\ kind = "Stringify" /\ Len(args) = 1 => args[1].k = "Lit"
    /\ kind = "FormatArgs" /\ Len(args) >= 2 => ~(args[1].k = "Macro" /\ args[2].k = "LitStr")
    /\ expander' = Some(MacroExpander_new(InvocationSpan, BuiltinItem(kind), args))
    /\ result' = None
    /\ UNCHANGED <<counter, astCells, irCounter, irCells, panicked, attempts, stored, letIds,
                   macroCells, macroDefs, making, makeResult, arena, types, interned, sized,
                   codegen, writer, emitted,
                   literal,
                   attrs, pass1, cfgs, maker>>
InvokeBuiltin ==
    /\ ~panicked
    /\ expander = None
    /\ counter - FirstFreeId < MaxMinted
    /\ \E kind \in BuiltinKinds, args \in ArgLists : NewBuiltin(kind, args)

\* Bodies that bind arguments: bind!(bind!(m, a..), b..)!(c..), and the body
\* m!(a.., b.., c..) they are measured against.
Composed(m, a, b, c) ==
    MacroInvocation(
        MacroInvocation(MacroRef(BindItem, <<>>),
                        <<MacroInvocation(MacroRef(BindItem, <<>>), <<MacroRef(m, <<>>)>> \o a)>> \o b),
        c)
Direct(m, a, b, c) == MacroInvocation(MacroRef(m, <<>>), a \o b \o c)
BoundMacros == {WrapItem, PairItem, IncItem}
\* the argument lists written in such bodies, for a macro with one parameter
BoundLists(shape) ==
    LET p == IF shape[1] THEN EtCetera(Local(1)) ELSE Local(1)
    IN  {<<>>, <<Lit(1)>>, <<p>>, <<p, Lit(2)>>}
BoundShapes == {<<FALSE>>, <<TRUE>>}

\* An invocation of a macro whose body binds arguments in two steps.
InvokeComposed ==
    /\ ~panicked
    /\ expander = None
    /\ counter - FirstFreeId < MaxMinted
    /\ \E shape \in BoundShapes, m \in BoundMacros, M \in 0..MaxArgs :
          \E a \in BoundLists(shape), b \in BoundLists(shape), c \in BoundLists(shape) :
             New(shape, Composed(m, a, b, c), M, InvocationSpan)

\* The references handed to a macro f($m) { $m!(s..) }: bound arguments
\* that are themselves expressions with locals.
References ==
    {MacroRef(m, bound) : m \in BoundMacros, bound \in {<<>>, <<Local(1)>>, <<Arg(3), Local(1)>>}}
Supplied == {<<>>, <<Lit(1)>>, <<Lit(1), Lit(2)>>}

\* An invocation f!(reference) of the macro f($m) { $m!(s..) }.
InvokeReference ==
    /\ ~panicked
    /\ expander = None
    /\ counter - FirstFreeId < MaxMinted
    /\ \E reference \in References, supplied \in Supplied :
          expander' = Some(MacroExpander_new(InvocationSpan,
                              MacroItem(Params(<<FALSE>>),
                                        Some(MacroInvocation(Local(1), supplied))),
                              <<reference>>))
    /\ result' = None
    /\ UNCHANGED <<counter, astCells, irCounter, irCells, panicked, attempts, stored, letIds,
                   macroCells, macroDefs, making, makeResult, arena, types, interned, sized,
                   codegen, writer, emitted,
                   literal,
                   attrs, pass1, cfgs, maker>>

\* ---------------------------------------------------------------- type interning
\* The two arena contexts.
Arenas == {"ast", "ir"}

\* A type: its variant, its scalar payload and the addresses (TyP) of the types
\* it refers to.  An address is the position of an allocation in the arena.
Type(kind, arg, elems) == [kind |-> kind, arg |-> arg, elems |-> elems]
BuiltinU8 == 3

\* derive(PartialEq, Eq, Hash) on Ty: a reference compares as what it points to,
\* so two types are equal when their whole structures are.
RECURSIVE Structure(_, _)
Structure(mem, ty) ==
    [kind |-> ty.kind, arg |-> ty.arg,
     elems |-> [i \in 1..Len(ty.elems) |-> Structure(mem, mem[ty.elems[i]])]]

Ty_eq_Address(mem, a, b) == a = b
Ty_eq(mem, a, b) == Structure(mem, a) = Structure(mem, b)

\* HashSet::get: the stored keys equal to ty.
HashSet_get(mem, keys, ty) == {key \in keys : Ty_eq(mem, mem[key], ty)}

\* The types a caller can build over the addresses it holds.
TypesOver(c, mem) ==
    LET held == 1..Len(mem) IN
    {Type("Builtin", BuiltinU8, <<>>)}
    \cup IF c = "ast"
         THEN {Type("Tuple", 0, <<>>)} \cup {Type("Pointer", 0, <<a>>) : a \in held}
         ELSE {Type("Pointer", k, <<a>>) : k \in {0, 1}, a \in held}

\* A compilation works on one arena at a time: the other one is still empty.
Other(c) == IF c = "ast" THEN "ir" ELSE "ast"
InUse(c) == arena[Other(c)] = <<>> /\ \A i \in DOMAIN interned : interned[i].ctx = c
Allocated == Len(arena["ast"]) + Len(arena["ir"])

\* ty.alloc_on(ctx): a plain arena allocation, which interns nothing.
AllocOn(c, ty) ==
    /\ ~panicked
    /\ InUse(c)
    /\ Allocated < MaxTypes
    /\ arena' = [arena EXCEPT ![c] = Append(@, ty)]
    /\ UNCHANGED <<counter, astCells, irCounter, irCells, panicked, attempts, stored,
                   expander, result, letIds, macroCells, macroDefs, making, makeResult,
                   types, interned, sized,
                   codegen, writer, emitted,
                   literal,
                   attrs, pass1, cfgs, maker>>

\* AstCtx::intern_type and IrCtx::intern_type.
intern_type(c, ty) ==
    LET found == HashSet_get(arena[c], types[c], ty)
        inner == Len(arena[c]) + 1
    IN  IF found # {}
        THEN /\ \E key \in found :
                  interned' = Append(interned, [ctx |-> c, ty |-> ty, key |-> key])
             /\ UNCHANGED <<arena, types>>
        ELSE /\ Allocated < MaxTypes
             /\ arena' = [arena EXCEPT ![c] = Append(@, ty)]
             /\ types' = [types EXCEPT ![c] = @ \cup {inner}]
             /\ interned' = Append(interned, [ctx |-> c, ty |-> ty, key |-> inner])

InternType(c, ty) ==
    /\ ~panicked
    /\ InUse(c)
    /\ Len(interned) < MaxInterns
    /\ intern_type(c, ty)
    /\ UNCHANGED <<counter, astCells, irCounter, irCells, panicked, attempts, stored,
                   expander, result, letIds, macroCells, macroDefs, making, makeResult,
                   sized,
                   codegen, writer, emitted,
                   literal,
                   attrs, pass1, cfgs, maker>>

\* ---------------------------------------------------------------- IR types
\* IR types, each reference (TyP) written as the type it points to.
BuiltinNever == 1
TyNever == Type("Builtin", BuiltinNever, <<>>)
TyU8 == Type("Builtin", BuiltinU8, <<>>)
TyItem(item) == Type("Item", item, <<>>)
TyPointer(inner, is_const) == Type("Pointer", IF is_const THEN 1 ELSE 0, <<inner>>)
TyArray(inner, size) == Type("Array", size, <<inner>>)
TyTuple(elems) == Type("Tuple", 0, elems)
TyFunctionPointer(args, ret) == Type("FunctionPointer", 0, args \o <<ret>>)
\* Ty::void
TyVoid == TyTuple(<<>>)

\* The IR items of the program compiled: kind and the types of the fields (of
\* a struct, of a closure's data), the aliased type or the underlying type.
IRItem(kind, tys) == [kind |-> kind, tys |-> tys]
IRItemOf(item) ==
    CASE item = 1 -> IRItem("StructLike", <<>>)
      [] item = 2 -> IRItem("StructLike", <<TyU8>>)
      [] item = 3 -> IRItem("StructLike", <<TyVoid, TyNever>>)
      [] item = 4 -> IRItem("StructLike", <<TyVoid, TyU8>>)
      [] item = 5 -> IRItem("Function", <<>>)
      [] item = 6 -> IRItem("Enum", <<TyU8>>)
      [] item = 7 -> IRItem("Enum", <<TyVoid>>)
      [] item = 8 -> IRItem("Alias", <<TyVoid>>)
      [] item = 9 -> IRItem("Alias", <<TyPointer(TyVoid, TRUE)>>)
      [] item = 10 -> IRItem("Closure", <<>>)
      [] item = 11 -> IRItem("Closure", <<TyPointer(TyU8, FALSE)>>)
      [] item = 12 -> IRItem("Alias", <<TyItem(5)>>)
IRItems == 1..12

\* Ty::is_never
is_never(ty) == ty.kind = "Builtin" /\ ty.arg = BuiltinNever

\* The Array arm of Ty::is_zero_sized.
array_is_zero_sized_Inner(size, inner) == inner
array_is_zero_sized(size, inner) == size = 0 \/ inner

\* Ty::is_zero_sized
RECURSIVE is_zero_sized(_)
is_zero_sized(ty) ==
    CASE ty.kind = "Builtin" -> ty.arg = BuiltinNever
      [] ty.kind = "Item" ->
            LET inner == IRItemOf(ty.arg) IN
            (CASE inner.kind = "Alias" -> is_zero_sized(inner.tys[1])
              [] inner.kind \in {"StructLike", "Closure"} ->
                    \A f \in DOMAIN inner.tys : is_zero_sized(inner.tys[f])
              [] inner.kind = "Function" -> TRUE
              [] inner.kind = "Enum" -> is_zero_sized(inner.tys[1]))
      [] ty.kind = "Pointer" -> FALSE
      [] ty.kind = "Array" -> array_is_zero_sized(ty.arg, is_zero_sized(ty.elems[1]))
      [] ty.kind = "Tuple" -> \A e \in DOMAIN ty.elems : is_zero_sized(ty.elems[e])
      [] ty.kind = "FunctionPointer" -> FALSE

\* The types asked about: the simple ones, and tuples and arrays of them.
SimpleTypes ==
    {TyNever, TyU8, TyPointer(TyU8, TRUE), TyPointer(TyNever, FALSE),
     TyFunctionPointer(<<>>, TyVoid), TyFunctionPointer(<<TyNever>>, TyNever)}
    \cup {TyItem(item) : item \in IRItems}
IrTypes ==
    SimpleTypes
    \cup {TyArray(inner, size) : inner \in SimpleTypes, size \in 0..MaxArray}
    \cup {TyTuple(<<>>)}
    \cup {TyTuple(<<e>>) : e \in SimpleTypes}
    \cup {TyTuple(<<e1, e2>>) : e1, e2 \in SimpleTypes}
    \cup {TyArray(TyTuple(<<e>>), size) : e \in SimpleTypes, size \in 0..MaxArray}
    \cup {TyTuple(<<TyArray(e, size)>>) : e \in SimpleTypes, size \in 0..MaxArray}

\* A caller asks whether ty is zero-sized.
IsZeroSized(ty) ==
    /\ sized' = Some([ty |-> ty, zero_sized |-> is_zero_sized(ty)])
    /\ UNCHANGED <<counter, astCells, irCounter, irCells, panicked, attempts, stored,
                   expander, result, letIds, macroCells, macroDefs, making, makeResult,
                   arena, types, interned,
                   codegen, writer, emitted,
                   literal,
                   attrs, pass1, cfgs, maker>>

\* ---------------------------------------------------------------- the C emitter
\* What w! appends to a buffer: a piece of text, with the id it names
\* (get_name), the number it prints or the type it spells (get_type).
Tok(text, n, ty) == [text |-> text, n |-> n, ty |-> ty]
NoTy == Type("", 0, <<>>)
Text(text) == Tok(text, 0, NoTy)

\* IR expressions: kind, the id referred to, the span, the type and the
\* operands (of a Call: the callee, then the arguments).
IrExpr(kind, n, ty, span, sub) ==
    [kind |-> kind, n |-> n, ty |-> ty, span |-> span, sub |-> sub]
IrLocal(id, ty, span) == IrExpr("Local", id, ty, span, <<>>)
IrFn(id, span) == IrExpr("Fn", id, TyItem(5), span, <<>>)
IrCall(callee, args, ty, span) == IrExpr("Call", 0, ty, span, <<callee>> \o args)
IrUnreachable == IrExpr("Unreachable", 0, TyNever, None, <<>>)
IrVoid(span) == IrExpr("Void", 0, TyVoid, span, <<>>)
IrExpression(e) == [kind |-> "Expression", n |-> 0, e |-> <<e>>]
IrLabel(id) == [kind |-> "Label", n |-> id, e |-> <<>>]

\* ir::Function
Parameter(id, ty) == [id |-> id, ty |-> ty]
FuncBody(local_defs, statements) == [local_defs |-> local_defs, statements |-> statements]
Function(name, attributes, args, return_type, body, varargs) ==
    [name |-> name, attributes |-> attributes, args |-> args,
     return_type |-> return_type, body |-> body, varargs |-> varargs]

\* The files the diagnostics context knows the path of.
get_file_path(file) == IF file = "main.alu" THEN Some(file) ELSE None

\* FunctionWriter::new
FunctionWriter_new(debug) ==
    [fn_decls |-> <<>>, fn_bodies |-> <<>>, indent |-> 0, debug_info |-> debug,
     in_const_init |-> FALSE, last_span |-> None]

\* FunctionWriter::endl and FunctionWriter::indent, on the bodies buffer.
Put(w, toks) == [w EXCEPT !.fn_bodies = @ \o toks]
endl(w) == IF w.debug_info THEN <<>> ELSE <<Text("\n")>>
indent(w) == IF ~w.debug_info THEN Put(w, <<Tok("indent", w.indent, NoTy)>>) ELSE w

\* The head of write_expr: the line bookkeeping.
line_of(s) == IF s = None THEN None ELSE Some(<<Unwrap(s).file, Unwrap(s).line + 1>>)
write_line(w, expr) ==
    IF expr.span # None
    THEN LET span == Unwrap(expr.span)
             prev_line == line_of(w.last_span)
         IN  IF prev_line # Some(<<span.file, span.line + 1>>)
             THEN LET out == IF prev_line = Some(<<span.file, span.line>>)
                             THEN <<Text("\n")>>
                             ELSE IF get_file_path(span.file) # None
                                  THEN <<Tok("#line", span.line + 1, NoTy)>>
                                  ELSE <<>>
                  IN  [Put(w, out) EXCEPT !.last_span = Some(span)]
             ELSE w
    ELSE [w EXCEPT !.last_span = None]

\* The arguments a call passes.
passed_All(args) == args
passed(args) == SelectSeq(args, LAMBDA arg : ~is_zero_sized(arg.ty))

RECURSIVE Emit(_, _, _, _)

\* The loop of the Call arm over the arguments passed, from the idx-th.
write_args_from(w, args, idx) ==
    IF idx > Len(args) THEN w
    ELSE LET sep == IF idx > 1 THEN Put(w, <<Text(", ")>>) ELSE w
             arg == Emit("write_expr", sep, args[idx], FALSE)
         IN  Emit("write_args_from", arg, args, idx + 1)

\* FunctionWriter::write_expr, for the expressions of the functions emitted.
write_expr(w, expr, bare_block) ==
    LET l == write_line(w, expr)
        k == CASE expr.kind = "Call" ->
                    LET callee == Emit("write_expr", l, expr.sub[1], FALSE)
                        args == Emit("write_args_from", Put(callee, <<Text("(")>>),
                                     passed(Tail(expr.sub)), 1)
                    IN  Put(args, <<Text(")")>>)
               [] expr.kind \in {"Fn", "Local"} -> Put(l, <<Tok("name", expr.n, expr.ty)>>)
               [] expr.kind = "Unreachable" -> Put(l, <<Text("__builtin_unreachable()")>>)
               [] expr.kind = "Void" -> l
    IN  IF bare_block THEN Put(k, <<Text(";")>>) ELSE k

\* FunctionWriter::write_stmt
write_stmt(w, stmt) ==
    IF stmt.kind = "Expression"
    THEN LET e == stmt.e[1] IN
         IF ~(e.kind = "Void" /\ e.kind = "Unreachable")
         THEN LET x == Emit("write_expr", indent(w), e, FALSE)
              IN  Put(x, <<Text(";")>> \o endl(x))
         ELSE w
    ELSE LET x == indent(w)
         IN  Put(x, <<Tok("name", stmt.n, NoTy), Text(": ;")>> \o endl(x))

\* The loop of write_function_body over the statements, from the i-th.
write_stmts_from(w, statements, i) ==
    IF i > Len(statements) THEN w
    ELSE LET stmt == write_stmt(w, statements[i])
         IN  Emit("write_stmts_from", stmt, statements, i + 1)

\* FunctionWriter::write_local_def, for the definitions from the i-th.
RECURSIVE write_local_defs_from(_, _, _)
write_local_defs_from(w, local_defs, i) ==
    IF i > Len(local_defs) THEN w
    ELSE write_local_defs_from(
             Put(indent(w), <<Tok("local", local_defs[i].id, local_defs[i].ty), Text(";\n")>>),
             local_defs, i + 1)

\* The function named f applied to its arguments.
Emit(f, w, a, b) ==
    CASE f = "write_expr" -> write_expr(w, a, b)
      [] f = "write_args_from" -> write_args_from(w, a, b)
      [] f = "write_stmts_from" -> write_stmts_from(w, a, b)

\* The parameters a signature lists, with the separators between them.
RECURSIVE write_params_from(_, _)
write_params_from(args, idx) ==
    IF idx > Len(args) THEN <<>>
    ELSE (IF idx > 1 THEN <<Text(", ")>> ELSE <<>>)
         \o <<Tok("param", args[idx].id, args[idx].ty)>>
         \o write_params_from(args, idx + 1)

\* write_function_signature: what it appends to buf.
static_if(is_static, is_inline) == is_static \/ is_inline
write_function_signature(id, item, is_static, is_body) ==
    LET has(a) == a \in item.attributes
        is_inline == has("AlwaysInline") \/ (~has("NoInline") /\ has("Inline"))
        attribute ==
            IF has("AlwaysInline") THEN <<Text("__attribute__((always_inline)) inline ")>>
            ELSE IF has("NoInline") THEN <<Text("__attribute__((noinline)) ")>>
            ELSE IF has("Inline") THEN <<Text("inline ")>>
            ELSE IF has("StaticConstructor") THEN <<Text("__attribute__((constructor)) ")>>
            ELSE <<>>
        cold == IF has("Cold") THEN <<Text("__attribute__((cold)) ")>> ELSE <<>>
        noreturn == IF is_never(item.return_type) THEN <<Text("_Noreturn ")>> ELSE <<>>
        return_type == IF is_zero_sized(item.return_type) THEN TyVoid ELSE item.return_type
        static == IF static_if(is_static, is_inline) THEN <<Text("static ")>> ELSE <<>>
        varargs == IF item.varargs
                   THEN (IF item.args # <<>> THEN <<Text(", ")>> ELSE <<>>) \o <<Text("...")>>
                   ELSE <<>>
        asm == IF has("LinkName") /\ ~is_body THEN <<Text(" asm")>> ELSE <<>>
    IN  <<Text("\n")>> \o noreturn \o cold \o attribute \o static
        \o <<Tok("type", 0, return_type), Tok("name", id, NoTy), Text("(")>>
        \o write_params_from(SelectSeq(item.args, LAMBDA arg : ~is_zero_sized(arg.ty)), 1)
        \o varargs \o <<Text(")")>> \o asm

\* CName
CName(kind, name, id) == [kind |-> kind, name |-> name, id |-> id]

\* The name write_function_decl registers, and whether it declares `static`.
native_if(has_link_name, extern, should_export) == ~has_link_name /\ (extern \/ should_export)

has_flag(flag) == flag \in Unwrap(codegen).flags
Written == DOMAIN emitted

\* CodegenCtx and FunctionWriter are set up; main has set the flags.
NewWriter(debug) ==
    /\ ~panicked
    /\ codegen = None
    /\ codegen' = Some([flags |-> IF debug THEN {"debug"} ELSE {}, names |-> <<>>, counter |-> 0])
    /\ writer' = Some(FunctionWriter_new(debug))
    /\ UNCHANGED <<counter, astCells, irCounter, irCells, panicked, attempts, stored,
                   expander, result, letIds, macroCells, macroDefs, making, makeResult,
                   arena, types, interned, sized, emitted,
                   literal,
                   attrs, pass1, cfgs, maker>>

\* FunctionWriter::write_function_decl, for the function `item` of the next id.
WriteFunctionDecl(item) ==
    /\ ~panicked
    /\ codegen # None
    /\ Len(emitted) < MaxFunctions
    /\ \A f \in Written : emitted[f].body_written
    /\ LET id == Len(emitted) + 1
           ctx == Unwrap(codegen)
           w == Unwrap(writer)
           has_link_name == "LinkName" \in item.attributes
           should_export == "Export" \in item.attributes \/ has_link_name
           native == native_if(has_link_name, item.body = None, should_export)
           name == IF native
                   THEN CName("Native", Unwrap(item.name), 0)
                   ELSE IF item.name # None
                        THEN CName("Mangled", Unwrap(item.name), ctx.counter)
                        ELSE CName("Id", 0, ctx.counter)
           is_static == IF native THEN FALSE
                        ELSE item.body # None /\ ~should_export /\ ~has_flag("debug")
           decl == write_function_signature(id, item, is_static, FALSE) \o <<Text(";")>>
       IN  IF native /\ item.name = None
           THEN /\ panicked' = TRUE
                /\ UNCHANGED <<codegen, writer, emitted>>
           ELSE /\ codegen' = Some([ctx EXCEPT !.names = Append(@, name),
                                               !.counter = IF native THEN @ ELSE @ + 1])
                /\ writer' = Some([w EXCEPT !.fn_decls = @ \o decl])
                /\ emitted' = Append(emitted, [item |-> item, decl |-> decl, body |-> <<>>,
                                               body_written |-> FALSE])
                /\ UNCHANGED panicked
    /\ UNCHANGED <<counter, astCells, irCounter, irCells, attempts, stored,
                   expander, result, letIds, macroCells, macroDefs, making, makeResult,
                   arena, types, interned, sized,
                   literal,
                   attrs, pass1, cfgs, maker>>

\* FunctionWriter::write_function_body, for a function declared.
WriteFunctionBody(id) ==
    /\ ~panicked
    /\ id \in Written
    /\ ~emitted[id].body_written
    /\ LET item == emitted[id].item
           w == Unwrap(writer)
           should_export == "Export" \in item.attributes
           start == Len(w.fn_bodies)
           sig == Put(w, write_function_signature(id, item,
                             ~should_export /\ ~has_flag("debug"), TRUE))
           open == [Put(sig, <<Text("{\n")>>) EXCEPT !.indent = @ + 2]
           body == Unwrap(item.body)
           inner == IF \E a \in Range(item.args) : is_never(a.ty)
                    THEN write_stmt(open, IrExpression(IrUnreachable))
                    ELSE write_stmts_from(
                             [write_local_defs_from(open, body.local_defs, 1)
                                  EXCEPT !.last_span = None],
                             body.statements, 1)
           done == [Put(inner, <<Text("}\n")>>) EXCEPT !.indent = @ - 2]
       IN  IF item.body = None
           THEN /\ emitted' = [emitted EXCEPT ![id].body_written = TRUE]
                /\ UNCHANGED writer
           ELSE /\ writer' = Some(done)
                /\ emitted' = [emitted EXCEPT ![id].body_written = TRUE,
                                              ![id].body = SubSeq(done.fn_bodies, start + 1,
                                                                  Len(done.fn_bodies))]
    /\ UNCHANGED <<counter, astCells, irCounter, irCells, panicked, attempts, stored,
                   expander, result, letIds, macroCells, macroDefs, making, makeResult,
                   arena, types, interned, sized, codegen,
                   literal,
                   attrs, pass1, cfgs, maker>>

\* ---------------------------------------------------------------- string literals
\* Characters are written as their codes.
Quote == 34
Apostrophe == 39
Backslash == 92
LetterX == 120
Char(c) == Tok("char", c, NoTy)
\* {:02x}: the two lower-case hexadecimal digits of a byte.
HexDigitChar(d) == IF d < 10 THEN 48 + d ELSE 87 + d
\* matches!(c, b'a'..=b'f' | b'A'..=b'F' | b'0'..=b'9')
is_hex_digit_Lower(c) == c \in 97..102 \/ c \in 48..57
is_hex_digit(c) == c \in 97..102 \/ c \in 65..70 \/ c \in 48..57

\* The loop of write_string_literal from the i-th byte: the text written and,
\* per byte, did_we_just_write_a_hex_escape after the byte.
RECURSIVE write_bytes_from(_, _, _, _, _)
write_bytes_from(bytes, i, did_we_just_write_a_hex_escape, text, flags) ==
    IF i > Len(bytes) THEN [text |-> text, flags |-> flags]
    ELSE LET c == bytes[i] IN
         IF c \in 32..126
         THEN LET out == IF c = Backslash THEN <<Char(Backslash), Char(Backslash)>>
                         ELSE IF c = Apostrophe THEN <<Char(Backslash), Char(Apostrophe)>>
                         ELSE IF c = Quote THEN <<Char(Backslash), Char(Quote)>>
                         ELSE (IF did_we_just_write_a_hex_escape /\ is_hex_digit(c)
                               THEN <<Char(Quote), Char(Quote)>> ELSE <<>>) \o <<Char(c)>>
              IN  write_bytes_from(bytes, i + 1, FALSE, text \o out, Append(flags, FALSE))
         ELSE write_bytes_from(bytes, i + 1, TRUE,
                  text \o <<Char(Backslash), Char(LetterX),
                            Char(HexDigitChar(c \div 16)), Char(HexDigitChar(c % 16))>>,
                  Append(flags, TRUE))

\* FunctionWriter::write_string_literal
write_string_literal(bytes) ==
    LET loop == write_bytes_from(bytes, 1, FALSE, <<>>, <<>>)
    IN  [text |-> <<Text("(const uint8_t*)\"")>> \o loop.text \o <<Char(Quote)>>,
         flags |-> loop.flags]

\* The byte strings written: some of each kind of byte.
Bytes == {0, 34, 39, 92, 48, 70, 97, 120, 255}
ByteStrings == UNION {[1..n -> Bytes] : n \in 0..MaxBytes}

\* write_expr on a literal Value::Str(bytes, 0).
WriteStringLiteral(bytes) ==
    /\ ~panicked
    /\ writer # None
    /\ literal = None
    /\ LET l == write_string_literal(bytes) IN
       /\ writer' = Some(Put(Unwrap(writer), l.text))
       /\ literal' = Some([bytes |-> bytes, text |-> l.text, flags |-> l.flags])
    /\ UNCHANGED <<counter, astCells, irCounter, irCells, panicked, attempts, stored,
                   expander, result, letIds, macroCells, macroDefs, making, makeResult,
                   arena, types, interned, sized, codegen, emitted,
                   attrs, pass1, cfgs, maker>>

\* The functions emitted.  Parameters have the ids 11 and 12, the function
\* called in the bodies has the id 1; the function emitted is named "f".
ParamTypes == {TyU8, TyVoid, TyNever, TyItem(1), TyItem(2)}
ParamLists ==
    {<<>>} \cup {<<Parameter(11, t)>> : t \in ParamTypes}
    \cup {<<Parameter(11, t1), Parameter(12, t2)>> : t1, t2 \in ParamTypes}
Locals(args) == [i \in 1..Len(args) |-> IrLocal(args[i].id, args[i].ty, None)]
CallBody(args, ty) ==
    Some(FuncBody(<<>>, <<IrExpression(IrCall(IrFn(1, None), Locals(args), ty, None))>>))
SignatureFunctions ==
    {Function(Some("f"), {}, args, TyU8, CallBody(args, TyU8), FALSE) : args \in ParamLists}
    \cup {Function(Some("f"), {}, <<Parameter(11, TyU8)>>, ret,
                   CallBody(<<Parameter(11, TyU8)>>, ret), FALSE) :
              ret \in {TyVoid, TyNever, TyItem(5), TyPointer(TyVoid, TRUE)}}
    \cup {Function(Some("f"), {}, args, TyU8, None, TRUE) :
              args \in {<<>>, <<Parameter(11, TyU8)>>}}

OneParam == <<Parameter(11, TyU8)>>
LocalBody == Some(FuncBody(<<Parameter(12, TyU8)>>, <<IrLabel(13)>>))
AttributeFunctions ==
    {Function(Some("f"), attributes, OneParam, TyU8, LocalBody, FALSE) :
         attributes \in SUBSET {"Export", "Inline", "LinkName", "NoInline"}}
    \cup {Function(Some("f"), {a}, OneParam, TyU8, LocalBody, FALSE) :
              a \in {"AlwaysInline", "Cold", "StaticConstructor"}}
    \cup {Function(Some("f"), attributes, OneParam, TyU8, None, FALSE) :
              attributes \in SUBSET {"Export", "LinkName"}}
    \cup {Function(None, attributes, OneParam, TyU8, LocalBody, FALSE) :
              attributes \in {{}, {"Inline"}}}

IrSpans ==
    {None, Some(Span("main.alu", 1, 0)), Some(Span("main.alu", 2, 0)),
     Some(Span("other.alu", 1, 0))}
SpannedExprs ==
    {IrLocal(11, TyU8, s) : s \in IrSpans}
    \cup {IrCall(IrFn(1, None), <<IrLocal(11, TyU8, Some(Span("main.alu", 2, 0)))>>, TyU8, s) :
              s \in IrSpans}
SpannedFunctions ==
    {Function(Some("f"), {}, OneParam, TyVoid,
              Some(FuncBody(<<>>, <<IrExpression(e)>>)), FALSE) : e \in SpannedExprs}
    \cup {Function(Some("f"), {}, OneParam, TyVoid,
                   Some(FuncBody(<<>>, <<IrExpression(e1), IrExpression(e2)>>)), FALSE) :
              e1, e2 \in SpannedExprs}
Functions == SignatureFunctions \cup AttributeFunctions \cup SpannedFunctions

\* ---------------------------------------------------------------- meta items
\* A meta item of an attribute: `name`, `name = value` or `name(arguments)`;
\* arguments is None or Some of the argument meta items, value None or Some
\* of the source text of the literal.
MetaItem(name, arguments, value) == [name |-> name, arguments |-> arguments, value |-> value]
Leaf(name) == MetaItem(name, None, None)
LeafValue(name, value) == MetaItem(name, None, Some(value))
Op(name, arguments) == MetaItem(name, Some(arguments), None)

\* node.child_by_field(Arguments).and_then(|n| n.child_by_field(Argument))
\* .map(|n| node_text(n)): the text of the first argument.
argument_text(node) ==
    IF node.arguments = None THEN None
    ELSE IF Unwrap(node.arguments) = <<>> THEN None
    ELSE Some(Unwrap(node.arguments)[1].name)

\* ---------------------------------------------------------------- cfg
\* The configuration: per name, None (not configured), Some(None) (a flag)
\* or Some(Some(value)).
Unset == None
Flag == Some(None)
Valued(value) == Some(Some(value))
cfg(config, name) == IF name \in DOMAIN config THEN config[name] ELSE None

\* parse_string_literal on the source text of a literal: the text between
\* the quotes.
parse_string_literal(text) ==
    CASE text = "\"x\"" -> "x"
      [] text = "\"y\"" -> "y"
      [] OTHER -> ""

CfgOk(value) == [ok |-> TRUE, value |-> value, err |-> ""]
CfgErr(err) == [ok |-> FALSE, value |-> FALSE, err |-> err]

\* enum State
StateOf(name) ==
    CASE name = "cfg" -> "Single"
      [] name = "all" -> "All"
      [] name = "any" -> "Any"
      [] name = "not" -> "Not"
      [] OTHER -> ""

\* CfgVisitor: visit_meta_item on a node and visit_meta_arguments on the
\* arguments of a node from the i-th on, under the state on top of the
\* visitor's stack (the state visit_meta_item pushed for the node).
RECURSIVE CfgVisitor_visit(_, _, _, _, _)
CfgVisitor_visit_meta_item(config, node) ==
    CfgVisitor_visit(config, "meta_item", node, "", 0)
CfgVisitor_visit_meta_arguments(config, node, state, i) ==
    CfgVisitor_visit(config, "meta_arguments", node, state, i)
CfgVisitor_visit(config, f, node, state, i) ==
    IF f = "meta_item"
    THEN IF node.arguments # None
         THEN IF StateOf(node.name) # ""
              THEN CfgVisitor_visit_meta_arguments(config, node, StateOf(node.name), 1)
              ELSE CfgErr("InvalidAttribute")
         ELSE LET expected == IF node.value = None THEN None
                              ELSE Some(parse_string_literal(Unwrap(node.value)))
                  actual == cfg(config, node.name)
              IN  CfgOk(IF actual = None THEN FALSE
                        ELSE IF expected = None THEN TRUE
                        ELSE IF Unwrap(actual) = None THEN FALSE
                        ELSE Unwrap(Unwrap(actual)) = Unwrap(expected))
    ELSE LET children == Unwrap(node.arguments) IN
         IF i > Len(children)
         THEN IF state \in {"Single", "Not"} THEN CfgErr("InvalidAttribute")
              ELSE CfgOk(state = "All")
         ELSE LET matches == CfgVisitor_visit_meta_item(config, children[i]) IN
              IF ~matches.ok THEN matches
              ELSE IF state \in {"Single", "Not"}
              THEN IF i < Len(children) THEN CfgErr("InvalidAttribute")
                   ELSE CfgOk(matches.value = (state = "Single"))
              ELSE IF state = "All" /\ ~matches.value THEN CfgOk(FALSE)
              ELSE IF state = "Any" /\ matches.value THEN CfgOk(TRUE)
              ELSE CfgVisitor_visit_meta_arguments(config, node, state, i + 1)

\* The expressions evaluated: leaves, operators over up to MaxCfgArgs leaves,
\* and such an operator with one of its arguments replaced by another.
CfgLeaves == {Leaf("a"), LeafValue("a", "\"x\""), Leaf("b")}
CfgOperators == {"cfg", "all", "any", "not", "feature"}
LeafLists == UNION {[1..n -> CfgLeaves] : n \in 0..MaxCfgArgs}
CfgFlat == {Op(o, l) : o \in CfgOperators, l \in LeafLists}
Nested(node, i, e) == Op(node.name, [Unwrap(node.arguments) EXCEPT ![i] = e])
Configs == {[x \in {"a"} |-> v] : v \in {Unset, Flag, Valued("x"), Valued("y")}}

\* A CfgVisitor is made for a configuration and visits the expression.
CfgVisit(node) ==
    /\ \E config \in Configs :
          cfgs' = Some([config |-> config, node |-> node,
                        returned |-> CfgVisitor_visit_meta_item(config, node)])
    /\ UNCHANGED <<counter, astCells, irCounter, irCells, panicked, attempts, stored, expander,
                   result, letIds, macroCells, making, makeResult, macroDefs, arena, types,
                   interned, sized, codegen, writer, emitted, literal, attrs, pass1, maker>>

\* ---------------------------------------------------------------- attributes
\* ast::Attribute: Align(n), LinkName(n, text); n is 0 and text empty for
\* the other kinds.
Attribute(kind, n, text) == [kind |-> kind, n |-> n, text |-> text]
Plain(kind) == Attribute(kind, 0, "")

\* str::parse::<usize> on the texts met.
parse_usize(text) ==
    CASE text = "0" -> Some(0)
      [] text = "1" -> Some(1)
      [] text = "2" -> Some(2)
      [] text = "3" -> Some(3)
      [] text = "4" -> Some(4)
      [] OTHER -> None
is_power_of_two(n) == n \in {1, 2, 4, 8, 16}
\* str::len on the link names met.
len(text) == IF text = "f" THEN 1 ELSE 0

\* AttributeVisitor, as parse_attributes constructs it; global_ctx holds the
\* configuration and the threading flag, has_item is item.is_some().
\* History: the meta items visited and what parse_attributes returned.
AttributeVisitor(config, threading, has_item) ==
    [config |-> config, threading |-> threading, has_item |-> has_item,
     attributes |-> <<>>, should_skip |-> FALSE, test_attributes |-> <<>>,
     warnings |-> <<>>, visited |-> <<>>, returned |-> None]

Visited(v) == [visitor |-> v, err |-> ""]
Rejected(v, err) == [visitor |-> v, err |-> err]
push(v, attribute) == Visited([v EXCEPT !.attributes = Append(@, attribute)])
\* attributes.iter().any(|a| matches!(a, ..)) over these kinds
any_matches(v, kinds) == \E i \in DOMAIN v.attributes : v.attributes[i].kind \in kinds
\* check_duplicate!
check_duplicate(v, kinds, otherwise) ==
    IF any_matches(v, kinds) THEN Rejected(v, "DuplicateAttribute") ELSE otherwise

\* The names whose arm is check_duplicate!(X); push(X).
PlainKind(name) ==
    CASE name = "cold" -> "Cold"
      [] name = "transparent" -> "Transparent"
      [] name = "builtin" -> "Builtin"
      [] name = "export" -> "Export"
      [] name = "must_use" -> "MustUse"
      [] OTHER -> ""

\* AttributeVisitor::visit_meta_item.  The arms allow / deny / warn, cfg_attr
\* and lang are not modelled: no meta item of these names is visited.
AttributeVisitor_visit_meta_item(v, node) ==
    LET name == node.name
        argument == argument_text(node)
    IN  CASE name = "align" ->
               check_duplicate(v, {"Align"},
                  LET align == IF argument = None THEN None ELSE parse_usize(Unwrap(argument))
                  IN  IF align = None THEN Rejected(v, "InvalidAttribute")
                      ELSE IF Unwrap(align) = 1
                      THEN Visited([v EXCEPT !.warnings = Append(@, "Align1")])
                      ELSE IF ~is_power_of_two(Unwrap(align))
                      THEN Rejected(v, "InvalidAttributeDetail")
                      ELSE IF any_matches(v, {"Packed"}) THEN Rejected(v, "AlignAndPacked")
                      ELSE push(v, Attribute("Align", Unwrap(align), "")))
          [] PlainKind(name) # "" ->
               check_duplicate(v, {PlainKind(name)}, push(v, Plain(PlainKind(name))))
          [] name = "packed" ->
               check_duplicate(v, {"Packed"},
                  IF any_matches(v, {"Align"}) THEN Rejected(v, "AlignAndPacked")
                  ELSE push(v, Plain("Packed")))
          [] name = "inline" ->
               check_duplicate(v, {"Inline", "AlwaysInline", "InlineDuringMono"},
                  IF argument = None THEN push(v, Plain("Inline"))
                  ELSE IF Unwrap(argument) = "always" THEN push(v, Plain("AlwaysInline"))
                  ELSE IF Unwrap(argument) = "never" THEN push(v, Plain("NoInline"))
                  ELSE IF Unwrap(argument) = "ir" THEN push(v, Plain("InlineDuringMono"))
                  ELSE Rejected(v, "InvalidAttribute"))
          [] name = "thread_local" ->
               check_duplicate(v, {"ThreadLocal"},
                  IF v.threading THEN push(v, Plain("ThreadLocal")) ELSE Visited(v))
          [] name = "test_main" -> push(v, Plain("TestMain"))
          [] name = "link_name" ->
               check_duplicate(v, {"LinkName"},
                  IF argument = None THEN Rejected(v, "InvalidAttribute")
                  ELSE push(v, Attribute("LinkName", len(Unwrap(argument)), Unwrap(argument))))
          [] name = "test" ->
               Visited([v EXCEPT !.test_attributes =
                           Append(@, IF argument = None THEN "" ELSE Unwrap(argument))])
          [] name = "cfg" ->
               (LET matches == CfgVisitor_visit_meta_item(v.config, node)
                IN  IF ~matches.ok THEN Rejected(v, matches.err)
                    ELSE IF ~matches.value THEN Visited([v EXCEPT !.should_skip = TRUE])
                    ELSE Visited(v))
          [] OTHER -> Visited(v)

\* AttributeVisitor::finalize
finalize(v) ==
    IF v.test_attributes # <<>>
    THEN IF ~v.has_item THEN Rejected(v, "CannotBeATest")
         ELSE push([v EXCEPT !.test_attributes = <<>>], Plain("Test"))
    ELSE Visited(v)

\* What parse_attributes returns: an error, or Ok of None (the item is
\* skipped) or of Some(attributes).
Parsed(attributes) == [ok |-> TRUE, err |-> "", attributes |-> attributes]
NotParsed(err) == [ok |-> FALSE, err |-> err, attributes |-> None]

\* AttributeVisitor::parse_attributes, lines 289-299, from the i-th meta item.
RECURSIVE parse_attributes_from(_, _, _)
parse_attributes_from(v, nodes, i) ==
    IF i > Len(nodes)
    THEN LET f == finalize(v)
         IN  IF f.err # "" THEN NotParsed(f.err)
             ELSE IF f.visitor.should_skip THEN Parsed(None)
             ELSE Parsed(Some(f.visitor.attributes))
    ELSE LET r == AttributeVisitor_visit_meta_item(v, nodes[i])
         IN  IF r.err # "" THEN NotParsed(r.err)
             ELSE parse_attributes_from(r.visitor, nodes, i + 1)
parse_attributes(config, threading, has_item, nodes) ==
    parse_attributes_from(AttributeVisitor(config, threading, has_item), nodes, 1)

\* The meta items met in attribute lists.
MetaItems ==
    {Leaf(n) : n \in {"align", "cold", "transparent", "packed", "builtin", "export", "must_use",
                      "thread_local", "test_main", "test", "link_name", "inline", "doc"}}
    \cup {Op("align", <<Leaf(n)>>) : n \in {"1", "2", "3"}}
    \cup {Op("inline", <<Leaf(n)>>) : n \in {"always", "never", "ir", "sometimes"}}
    \cup {Op("link_name", <<Leaf("f")>>), Op("cfg", <<Leaf("a")>>)}
AttributeConfigs == {[x \in {"a"} |-> v] : v \in {Unset, Flag}}

\* parse_attributes constructs the visitor for an item's attribute list.
NewAttributeVisitor ==
    /\ ~panicked
    /\ attrs = None
    /\ \E config \in AttributeConfigs, threading \in BOOLEAN, has_item \in BOOLEAN :
          attrs' = Some(AttributeVisitor(config, threading, has_item))
    /\ UNCHANGED <<counter, astCells, irCounter, irCells, panicked, attempts, stored, expander,
                   result, letIds, macroCells, making, makeResult, macroDefs, arena, types,
                   interned, sized, codegen, writer, emitted, literal, pass1, cfgs, maker>>

\* The visitor visits the next meta item of the list; an error ends
\* parse_attributes.
VisitMetaItem ==
    /\ ~panicked
    /\ attrs # None
    /\ Unwrap(attrs).returned = None
    /\ Len(Unwrap(attrs).visited) < MaxAttributes
    /\ \E node \in MetaItems :
          LET r == AttributeVisitor_visit_meta_item(Unwrap(attrs), node)
          IN  attrs' = Some([r.visitor EXCEPT
                                !.visited = Append(@, node),
                                !.returned = IF r.err # "" THEN Some(NotParsed(r.err)) ELSE None])
    /\ UNCHANGED <<counter, astCells, irCounter, irCells, panicked, attempts, stored, expander,
                   result, letIds, macroCells, making, makeResult, macroDefs, arena, types,
                   interned, sized, codegen, writer, emitted, literal, pass1, cfgs, maker>>

\* The list is at its end: finalize, and parse_attributes returns.
Finalize ==
    /\ ~panicked
    /\ attrs # None
    /\ Unwrap(attrs).returned = None
    /\ LET f == finalize(Unwrap(attrs))
       IN  attrs' = Some([f.visitor EXCEPT
                             !.returned = Some(IF f.err # "" THEN NotParsed(f.err)
                                               ELSE IF f.visitor.should_skip THEN Parsed(None)
                                               ELSE Parsed(Some(f.visitor.attributes)))])
    /\ UNCHANGED <<counter, astCells, irCounter, irCells, panicked, attempts, stored, expander,
                   result, letIds, macroCells, making, makeResult, macroDefs, arena, types,
                   interned, sized, codegen, writer, emitted, literal, pass1, cfgs, maker>>

\* ---------------------------------------------------------------- first pass
\* The path of the source file's scope and of a module inside it.
RootPath == <<>>
named_child(path, name) == Append(path, name)

\* FirstPassVisitor::new and ::with_main on the scope of a source file.
\* symbols counts the items make_symbol created.  History: the function
\* definitions visited, and the error visit returned (None: none).
FirstPassVisitor(config, with_main) ==
    [config |-> config, scope |-> RootPath,
     main_module_path |-> IF with_main THEN Some(RootPath) ELSE None,
     main_candidate |-> None, symbols |-> 0, visited |-> <<>>, returned |-> None]

contains(attributes, kind) == \E i \in DOMAIN attributes : attributes[i].kind = kind

\* visit_function_definition, lines 336-350: the conditions before
\* main_candidate.replace(item).
qualifies_Exported(v, name, attributes) ==
    /\ v.main_module_path # None
    /\ IF cfg(v.config, "test") # None
       THEN contains(attributes, "TestMain")
       ELSE /\ v.scope = Unwrap(v.main_module_path)
            /\ name = "main"
            /\ ~contains(attributes, "LinkName")
qualifies(v, name, attributes) ==
    /\ v.main_module_path # None
    /\ IF cfg(v.config, "test") # None
       THEN contains(attributes, "TestMain")
       ELSE /\ v.scope = Unwrap(v.main_module_path)
            /\ name = "main"
            /\ ~contains(attributes, "Export")
            /\ ~contains(attributes, "LinkName")

\* A function definition visited: the symbol made for it, its name, the
\* attributes parsed (None: none, it was skipped or parsing failed), the
\* scope it is in, and the error the visit returned.
FunctionVisited(item, name, attributes, scope, err) ==
    [item |-> item, name |-> name, attributes |-> attributes, scope |-> scope, err |-> err]

\* FirstPassVisitor::visit_function_definition on a definition with this
\* name and attribute list; added: Scope::add_item accepted the name.
visit_function_definition(v, name, nodes, added) ==
    LET item == v.symbols + 1
        made == [v EXCEPT !.symbols = item]
        parsed == parse_attributes(v.config, FALSE, TRUE, nodes)
        ends(w, attributes, err) ==
            [w EXCEPT !.visited = Append(@, FunctionVisited(item, name, attributes, v.scope, err)),
                      !.returned = IF err = "" THEN None ELSE Some(err)]
    IN  IF ~parsed.ok THEN ends(made, None, parsed.err)
        ELSE IF parsed.attributes = None THEN ends(made, None, "")
        ELSE LET attributes == Unwrap(parsed.attributes) IN
             IF qualifies(v, name, attributes)
             THEN IF v.main_candidate # None
                  THEN ends([made EXCEPT !.main_candidate = Some(item)], parsed.attributes,
                            "MultipleMainFunctions")
                  ELSE ends([made EXCEPT !.main_candidate = Some(item)], parsed.attributes,
                            IF added THEN "" ELSE "DuplicateName")
             ELSE ends(made, parsed.attributes, IF added THEN "" ELSE "DuplicateName")

\* The function definitions a source file holds.
FunctionNames == {"main", "f"}
AttributeLists ==
    {<<>>, <<Leaf("export")>>, <<Op("link_name", <<Leaf("f")>>)>>, <<Leaf("test_main")>>,
     <<Op("cfg", <<Leaf("test")>>), Leaf("test_main")>>, <<Leaf("export"), Leaf("export")>>}
Pass1Configs == {[x \in {"test"} |-> v] : v \in {Unset, Flag}}

\* A first pass starts on a source file, as the main module or not.
NewFirstPassVisitor ==
    /\ ~panicked
    /\ pass1 = None
    /\ \E config \in Pass1Configs, with_main \in BOOLEAN :
          pass1' = Some(FirstPassVisitor(config, with_main))
    /\ UNCHANGED <<counter, astCells, irCounter, irCells, panicked, attempts, stored, expander,
                   result, letIds, macroCells, making, makeResult, macroDefs, arena, types,
                   interned, sized, codegen, writer, emitted, literal, attrs, cfgs, maker>>

\* visit_mod_definition, lines 175-183: the visitor enters the module's body.
VisitModDefinition ==
    /\ ~panicked
    /\ pass1 # None
    /\ Unwrap(pass1).returned = None
    /\ Len(Unwrap(pass1).scope) < MaxNesting
    /\ pass1' = Some([Unwrap(pass1) EXCEPT !.scope = named_child(@, "m")])
    /\ UNCHANGED <<counter, astCells, irCounter, irCells, panicked, attempts, stored, expander,
                   result, letIds, macroCells, making, makeResult, macroDefs, arena, types,
                   interned, sized, codegen, writer, emitted, literal, attrs, cfgs, maker>>

\* visit_mod_definition, lines 183-187 (with_child_scope!): the body is
\* visited, the previous scope is put back.
LeaveModDefinition ==
    /\ ~panicked
    /\ pass1 # None
    /\ Unwrap(pass1).returned = None
    /\ Unwrap(pass1).scope # RootPath
    /\ pass1' = Some([Unwrap(pass1) EXCEPT !.scope = SubSeq(@, 1, Len(@) - 1)])
    /\ UNCHANGED <<counter, astCells, irCounter, irCells, panicked, attempts, stored, expander,
                   result, letIds, macroCells, making, makeResult, macroDefs, arena, types,
                   interned, sized, codegen, writer, emitted, literal, attrs, cfgs, maker>>

\* The visitor meets a function definition in the scope it is in.
VisitFunctionDefinition ==
    /\ ~panicked
    /\ pass1 # None
    /\ Unwrap(pass1).returned = None
    /\ Len(Unwrap(pass1).visited) < MaxVisited
    /\ \E name \in FunctionNames, nodes \in AttributeLists, added \in BOOLEAN :
          pass1' = Some(visit_function_definition(Unwrap(pass1), name, nodes, added))
    /\ UNCHANGED <<counter, astCells, irCounter, irCells, panicked, attempts, stored, expander,
                   result, letIds, macroCells, making, makeResult, macroDefs, arena, types,
                   interned, sized, codegen, writer, emitted, literal, attrs, cfgs, maker>>

\* ---------------------------------------------------------------- item maker
\* make_item_group's match on the kinds of the items of a group: the arm
\* taken.
arm(group) ==
    IF Len(group) = 1 /\ group[1] \in {"Alias", "Module", "Impl", "TypeDef", "Protocol", "Static",
                                        "Const", "Macro", "Function"}
    THEN group[1]
    ELSE IF Len(group) >= 1 /\ group[1] = "Type" THEN "Type"
    ELSE ""

\* What make_item_group did: the error returned, whether it panicked
\* (unreachable!), the symbols pushed.
Handled(err, panic, pushed) == [err |-> err, panic |-> panic, pushed |-> pushed]

\* AstItemMaker::make_item_group on a group whose items have these kinds and
\* this symbol; built: what the call the arm makes returns ("" for Ok), and
\* whether make_function made an intrinsic.
make_item_group(group, symbol, built, intrinsic) ==
    LET a == arm(group) IN
    CASE a = "Impl" -> Handled("NoFreeStandingImpl", FALSE, <<>>)
      [] a = "Type" ->
           (IF \E i \in 2..Len(group) : group[i] # "Impl" THEN Handled("", TRUE, <<>>)
            ELSE IF built # "" THEN Handled(built, FALSE, <<>>)
            ELSE Handled("", FALSE, <<symbol>>))
      [] a \in {"TypeDef", "Static", "Const", "Macro"} ->
           (IF built # "" THEN Handled(built, FALSE, <<>>) ELSE Handled("", FALSE, <<symbol>>))
      [] a = "Function" ->
           (IF built # "" THEN Handled(built, FALSE, <<>>)
            ELSE Handled("", FALSE, IF intrinsic THEN <<>> ELSE <<symbol>>))
      [] a \in {"Alias", "Module", "Protocol"} -> Handled(built, FALSE, <<>>)
      [] OTHER -> Handled("", FALSE, <<>>)

\* The groups Scope::grouped_items hands out: one item, or a type with its
\* impl blocks, or the impl blocks under a name that has no type.
Impls(n) == [i \in 1..n |-> "Impl"]
ItemGroups ==
    {<<k>> : k \in {"Alias", "Module", "TypeDef", "Protocol", "Static", "Const", "Macro",
                    "Function", "Type", "Field", "Parameter"}}
    \cup {<<"Type">> \o Impls(n) : n \in 1..MaxImpls}
    \cup {Impls(n) : n \in 1..MaxImpls}

\* AstItemMaker::new
AstItemMaker == [symbols |-> <<>>, groups |-> <<>>]

\* make hands the maker the next item group of a scope.
MakeItemGroup ==
    /\ ~panicked
    /\ Len(maker.groups) < MaxGroups
    /\ IF maker.groups = <<>> THEN TRUE ELSE maker.groups[Len(maker.groups)].handled.err = ""
    /\ \E group \in ItemGroups, built \in {"", "Failed"}, intrinsic \in BOOLEAN :
          LET symbol == Len(maker.groups) + 1
              h == make_item_group(group, symbol, built, intrinsic)
          IN  /\ maker' = [symbols |-> maker.symbols \o h.pushed,
                           groups |-> Append(maker.groups, [group |-> group, handled |-> h])]
              /\ panicked' = h.panic
    /\ UNCHANGED <<counter, astCells, irCounter, irCells, attempts, stored, expander,
                   result, letIds, macroCells, making, makeResult, macroDefs, arena, types,
                   interned, sized, codegen, writer, emitted, literal, attrs, pass1, cfgs>>

\* ---------------------------------------------------------------- specifications
Init ==
    /\ counter = FirstFreeId
    /\ astCells = EmptyMap
    /\ irCounter = 0
    /\ irCells = EmptyMap
    /\ panicked = FALSE
    /\ attempts = EmptyMap
    /\ stored = EmptyMap
    /\ expander = None
    /\ result = None
    /\ letIds = {}
    /\ macroCells = [s \in MacroSymbols |-> None]
    /\ macroDefs = [s \in MacroSymbols |-> None]
    /\ making = <<>>
    /\ makeResult = None
    /\ arena = [c \in Arenas |-> <<>>]
    /\ types = [c \in Arenas |-> {}]
    /\ interned = <<>>
    /\ sized = None
    /\ codegen = None
    /\ writer = None
    /\ emitted = <<>>
    /\ literal = None
    /\ attrs = None
    /\ pass1 = None
    /\ cfgs = None
    /\ maker = AstItemMaker

NextCells ==
    \/ AstMakeSymbol
    \/ \E c \in DOMAIN astCells, value \in AstItems : AstAssign(c, value)
    \/ IrMakeSymbol
    \/ \E c \in DOMAIN irCells, value \in IrItems : IrAssign(c, value)

NextMacro ==
    \/ Invoke
    \/ Expand
    \/ Drop

NextMake ==
    \/ \E s \in MacroSymbols, d \in Definitions : MakeEnter(s, d)
    \/ MakeFinish
    \/ MakeAbort
    \/ \E s \in MacroSymbols, M \in 0..MaxArgs : InvokeMade(s, M)
    \/ Expand
    \/ Drop

NextRemake ==
    \/ \E s \in MacroSymbols, d \in Definitions : MakeEnter(s, d)
    \/ MakeFinish
    \/ MakeAbort

NextBuiltin ==
    \/ InvokeBuiltin
    \/ InvokeComposed
    \/ InvokeReference
    \/ Expand
    \/ Drop

NextIntern ==
    \/ \E c \in Arenas : \E ty \in TypesOver(c, arena[c]) : AllocOn(c, ty)
    \/ \E c \in Arenas : \E ty \in TypesOver(c, arena[c]) : InternType(c, ty)

NextLayout ==
    \E ty \in IrTypes : IsZeroSized(ty)

NextEmit ==
    \/ \E debug \in BOOLEAN : NewWriter(debug)
    \/ \E item \in Functions : WriteFunctionDecl(item)
    \/ \E id \in Written : WriteFunctionBody(id)

NextLiteral ==
    \/ \E debug \in BOOLEAN : NewWriter(debug)
    \/ \E bytes \in ByteStrings : WriteStringLiteral(bytes)

NextAttributes ==
    \/ NewAttributeVisitor
    \/ VisitMetaItem
    \/ Finalize
NextPass1 ==
    \/ NewFirstPassVisitor
    \/ VisitModDefinition
    \/ LeaveModDefinition
    \/ VisitFunctionDefinition
NextCfg ==
    /\ ~panicked
    /\ cfgs = None
    /\ \/ \E node \in CfgLeaves \cup CfgFlat : CfgVisit(node)
       \/ \E node \in CfgFlat, e \in CfgFlat :
             \E i \in DOMAIN Unwrap(node.arguments) : CfgVisit(Nested(node, i, e))
NextGroups == MakeItemGroup
Next ==
    NextCells \/ NextMacro \/ NextMake \/ NextBuiltin \/ NextIntern \/ NextLayout \/ NextEmit
    \/ NextLiteral \/ NextAttributes \/ NextPass1 \/ NextCfg \/ NextGroups

Spec == Init /\ [][Next]_vars
SpecCells == Init /\ [][NextCells]_vars
SpecMacro == Init /\ [][NextMacro]_vars
SpecMake == Init /\ [][NextMake]_vars
SpecRemake == Init /\ [][NextRemake]_vars
SpecBuiltin == Init /\ [][NextBuiltin]_vars
SpecIntern == Init /\ [][NextIntern]_vars
SpecLayout == Init /\ [][NextLayout]_vars
SpecEmit == Init /\ [][NextEmit]_vars
SpecLiteral == Init /\ [][NextLiteral]_vars
SpecAttributes == Init /\ [][NextAttributes]_vars
SpecPass1 == Init /\ [][NextPass1]_vars
SpecCfg == Init /\ [][NextCfg]_vars
SpecGroups == Init /\ [][NextGroups]_vars


\* ================================================================ claims
\* An expansion has ended: the expander E and what expand returned, R.
Done == expander # None /\ result # None
E == Unwrap(expander)
R == Unwrap(result)
NParams == Len(E.macro.args)
NArgs == Len(E.args)
EtcPos == et_cetera_position(E.macro.args)
\* the invocation passes the argument count check
Accepted == IF EtcPos # None THEN NArgs >= NParams - 1 ELSE NArgs = NParams
\* the number of variadic arguments of an accepted invocation
EtcCount == NArgs - NParams + 1
ParamId(i) == E.macro.args[i + 1].id
Body == Unwrap(E.macro.body)

\* C1: write-once item cells.  For every cell of either arena: at most one
\* assign call stores its value; the first assign stores it; from the second
\* call on the process has panicked and the cell still holds the first value.
WriteOnce ==
    \A key \in DOMAIN attempts :
        LET contents == IF key[1] = "ast" THEN astCells[key[2]] ELSE irCells[key[2]]
        IN  /\ Len(stored[key]) <= 1
            /\ attempts[key] = 0 => contents = None
            /\ attempts[key] >= 1 => Len(stored[key]) = 1 /\ contents = Some(stored[key][1])
            /\ attempts[key] >= 2 => panicked
\* a second assign was attempted on an assigned AST cell while an IR cell is assigned
WriteOnceWitness ==
    /\ \E key \in DOMAIN attempts : key[1] = "ast" /\ attempts[key] = 2 /\ panicked
    /\ \E key \in DOMAIN attempts : key[1] = "ir" /\ attempts[key] = 1

\* C2: hygiene.  The ids of the let-declarations of an expansion's result are
\* pairwise distinct, none was given to a let-declaration by an earlier
\* expansion, none is the id of a let-declaration of the macro body, and none
\* was minted before the expansion began.
Hygiene ==
    (Done /\ R.ok) =>
        LET lets == LetSeq(R.v)
        IN  /\ Cardinality(Range(lets)) = Len(lets)
            /\ Range(lets) \cap R.before = {}
            /\ Range(lets) \cap LetIdsIn(Body) = {}
            /\ \A f \in Range(lets) : f >= R.start
\* a second expansion that declares locals, after one that declared locals
HygieneWitness ==
    Done /\ R.ok /\ R.before # {} /\ Len(LetSeq(R.v)) >= 2

\* C3: alpha-renaming.  A local that is no parameter, visited after a
\* let-declaration of its id in the same expander, is emitted as the local
\* with the fresh id the latest such declaration was given, which is not the
\* id written in the body.
DeclaredBefore(log, j) ==
    {i \in 1..(j - 1) : /\ log[i].k = "LetDeclaration"
                        /\ log[i].id = log[j].id
                        /\ log[i].eid = log[j].eid}
Max(S) == CHOOSE m \in S : \A n \in S : n <= m
AlphaRenaming ==
    Done =>
        \A j \in 1..Len(R.x.log) :
            LET log == R.x.log
                ev == log[j]
            IN  (ev.k = "Local" /\ ~ev.isParam /\ ~ev.isEtc /\ DeclaredBefore(log, j) # {}) =>
                    LET fresh == log[Max(DeclaredBefore(log, j))].nid
                    IN  /\ ev.ok
                        /\ ev.out = Node("Local", fresh, <<>>, E.invocation_span)
                        /\ fresh # ev.id
\* a declared local is referred to after its declaration
AlphaRenamingWitness ==
    /\ Done
    /\ R.ok
    /\ \E j \in 1..Len(R.x.log) :
          R.x.log[j].k = "Local" /\ DeclaredBefore(R.x.log, j) # {}


\* C4: et-cetera splice.  Reference expansion, written from the claim: a
\* splice in a list position stands for one copy of its expression per
\* variadic argument, in argument order, in the place of the splice; inside
\* copy i the et-cetera parameter is variadic argument i; what surrounds the
\* splice keeps its order.  Trees are compared without their spans.
Strip(n) == [k |-> n.k, id |-> n.id, ch |-> n.ch]
\* the argument parameter id stands for (the parameter at position q has id q)
ArgFor(id, i) ==
    LET q == id - 1
    IN  IF EtcPos = None \/ q < Unwrap(EtcPos) THEN E.args[q + 1]
        ELSE IF q = Unwrap(EtcPos) THEN E.args[q + Unwrap(i) + 1]
        ELSE E.args[q + EtcCount]
RECURSIVE Copy(_, _)
Copies(list, i) ==
    Concat([j \in 1..Len(list) |->
               IF list[j].k = "EtCetera"
               THEN [c \in 1..EtcCount |-> Copy(list[j].ch[1], Some(c - 1))]
               ELSE <<Copy(list[j], i)>>])
StatementCopies(statements, i) ==
    Concat([j \in 1..Len(statements) |->
               IF statements[j].ch[1].k = "EtCetera"
               THEN [c \in 1..EtcCount |->
                        [k |-> "Expression", id |-> 0,
                         ch |-> <<Copy(statements[j].ch[1].ch[1], Some(c - 1))>>]]
               ELSE <<[k |-> "Expression", id |-> 0, ch |-> <<Copy(statements[j].ch[1], i)>>]>>])
Copy(e, i) ==
    CASE e.k = "Local" ->
           IF e.id \in 1..NParams THEN Strip(ArgFor(e.id, i)) ELSE Strip(e)
      [] e.k \in {"Tuple", "Array"} -> [k |-> e.k, id |-> 0, ch |-> Copies(e.ch, i)]
      [] e.k = "Call" ->
           [k |-> "Call", id |-> 0, ch |-> <<Copy(e.ch[1], i)>> \o Copies(Tail(e.ch), i)]
      [] e.k = "MacroInvocation" ->
           \* wrap!(l) is [l]
           [k |-> "Array", id |-> 0, ch |-> Copies(Tail(e.ch), i)]
      [] e.k = "Block" ->
           [k |-> "Block", id |-> 0,
            ch |-> Append(StatementCopies(SubSeq(e.ch, 1, Len(e.ch) - 1), i),
                          Copy(e.ch[Len(e.ch)], i))]
      [] e.k = "Struct" ->
           [k |-> "Struct", id |-> 0,
            ch |-> [j \in 1..Len(e.ch) |->
                       [k |-> "FieldInitializer", id |-> e.ch[j].id,
                        ch |-> <<Copy(e.ch[j].ch[1], i)>>]]]
      [] e.k = "Binary" ->
           [k |-> e.k, id |-> e.id, ch |-> [j \in 1..Len(e.ch) |-> Copy(e.ch[j], i)]]
      [] OTHER -> Strip(e)
RECURSIVE Spanless(_)
Spanless(n) == [k |-> n.k, id |-> n.id, ch |-> [j \in 1..Len(n.ch) |-> Spanless(n.ch[j])]]
\* the macros a body invokes (0 where what is invoked is no macro)
RECURSIVE Invoked(_)
Invoked(n) ==
    (IF n.k = "MacroInvocation"
     THEN {IF n.ch[1].k = "Macro" THEN n.ch[1].id ELSE 0}
     ELSE {})
    \cup UNION {Invoked(n.ch[j]) : j \in 1..Len(n.ch)}
\* a body the reference expansion covers: it declares no local and invokes
\* no macro but wrap
Covered == LetSeq(Body) = <<>> /\ Invoked(Body) \subseteq {WrapItem}
\* The successful expansion of a covered body is the reference expansion.
EtCeteraSplice ==
    (Done /\ R.ok /\ Covered) => Spanless(R.v) = Spanless(Copy(Body, None))
\* a splice between two other elements of a list, two variadic arguments
\* after a leading fixed one
EtCeteraSpliceWitness ==
    /\ Done
    /\ R.ok
    /\ EtcPos = Some(1)
    /\ EtcCount = 2
    /\ Body.k = "Call"
    /\ Len(Body.ch) = 4
    /\ Body.ch[3] = EtCetera(Binary(Local(2), Lit(0)))
    /\ Len(R.v.ch) = 5

\* C5: argument-count acceptance.  The expansion of a user macro with N
\* parameters on M arguments visits the body exactly when M = N (no
\* et-cetera parameter) or M >= N - 1 (one); otherwise it returns
\* ParamCountMismatch(N, M), respectively NotEnoughMacroArguments(N - 1),
\* with the invocation span, having visited nothing and minted no id.
CountError ==
    IF EtcPos # None
    THEN Error("NotEnoughMacroArguments", NParams - 1, 0, E.invocation_span)
    ELSE Error("ParamCountMismatch", NParams, NArgs, E.invocation_span)
ArgumentCount ==
    Done =>
        /\ Accepted => /\ R.x.visits >= 1
                       /\ R.err.kind \notin {"ParamCountMismatch", "NotEnoughMacroArguments"}
        /\ ~Accepted => /\ ~R.ok
                        /\ R.err = CountError
                        /\ R.x.visits = 0
                        /\ R.x.log = <<>>
                        /\ R.x.counter = R.start
\* an et-cetera macro of two or more parameters expanded on one argument less
ArgumentCountWitness ==
    Done /\ EtcPos # None /\ NParams >= 2 /\ NArgs = NParams - 1 /\ R.ok /\ R.x.visits >= 2

\* C6: argument binding.  In an accepted invocation without et-cetera
\* parameter, parameter i is bound to argument i; with the et-cetera
\* parameter at position k, parameter i < k is bound to argument i and the
\* et-cetera parameter to the arguments k .. k + (M - N + 1) - 1 in call order.
ArgumentBinding ==
    (Done /\ Accepted) =>
        IF EtcPos = None
        THEN /\ \A i \in 0..(NParams - 1) : R.x.replacements[ParamId(i)] = E.args[i + 1]
             /\ R.x.et_cetera_arg = None
        ELSE LET k == Unwrap(EtcPos)
             IN  /\ \A i \in 0..(k - 1) : R.x.replacements[ParamId(i)] = E.args[i + 1]
                 /\ R.x.et_cetera_arg # None
                 /\ Unwrap(R.x.et_cetera_arg).id = ParamId(k)
                 /\ Len(Unwrap(R.x.et_cetera_arg).args) = NArgs - NParams + 1
                 /\ \A j \in 1..(NArgs - NParams + 1) :
                        Unwrap(R.x.et_cetera_arg).args[j] = E.args[k + j]
\* the et-cetera parameter in the middle, bound to two arguments
ArgumentBindingWitness ==
    /\ Done
    /\ Accepted
    /\ EtcPos = Some(1)
    /\ NParams = 3
    /\ Len(Unwrap(R.x.et_cetera_arg).args) = 2

\* C7 (as amended): binding after the et-cetera parameter.  In an accepted
\* invocation with the et-cetera parameter at position k, the parameter at
\* position i, k < i < N, is bound to the argument at index i + (M - N): the
\* trailing parameters take the last N - 1 - k arguments.
TrailingBinding ==
    (Done /\ Accepted /\ EtcPos # None) =>
        \A i \in (Unwrap(EtcPos) + 1)..(NParams - 1) :
            R.x.replacements[ParamId(i)] = E.args[i + (NArgs - NParams) + 1]
\* two parameters after the et-cetera parameter, which takes no or two arguments
TrailingBindingWitness ==
    /\ Done
    /\ Accepted
    /\ EtcPos = Some(0)
    /\ NParams = 3
    /\ EtcCount # 1
\* C7 as stated: the parameter at position i, k < i < N, is bound to the
\* argument at index i + (M - N + 1).
TrailingBindingAsStated ==
    (Done /\ Accepted /\ EtcPos # None) =>
        \A i \in (Unwrap(EtcPos) + 1)..(NParams - 1) :
            /\ i + (NArgs - NParams + 1) < NArgs
            /\ R.x.replacements[ParamId(i)] = E.args[i + (NArgs - NParams + 1) + 1]

\* C8 (as amended): the et-cetera parameter never leaks unindexed.  A local
\* referring to the et-cetera parameter, visited while no splice index is
\* installed, yields CannotEtCeteraHere, and visited while one is installed
\* is the variadic argument at that index; an index is installed exactly
\* while the copies of a splice are being produced, and none is left
\* installed by a successful expansion; a splice in a list position met
\* while an index is installed yields EtCeteraInEtCetera; a splice in any
\* other position yields CannotEtCeteraHere, index installed or not.
IndexDiscipline(ev) ==
    /\ (ev.idx # None) <=> (ev.depth > 0)
    /\ (ev.k = "Local" /\ ev.isEtc /\ ~ev.isParam /\ ev.idx = None) =>
           ~ev.ok /\ ev.err = "CannotEtCeteraHere"
    /\ (ev.k = "Local" /\ ev.isEtc /\ ~ev.isParam /\ ev.idx # None /\ ev.eid = 0) =>
           ev.ok /\ ev.out = E.args[Unwrap(EtcPos) + Unwrap(ev.idx) + 1]
NoLeak ==
    Done =>
        /\ \A j \in 1..Len(R.x.log) :
               LET ev == R.x.log[j]
               IN  /\ IndexDiscipline(ev)
                   /\ (ev.k = "Splice" /\ ev.idx # None) => ~ev.ok /\ ev.err = "EtCeteraInEtCetera"
                   /\ ev.k = "EtCetera" => ~ev.ok /\ ev.err = "CannotEtCeteraHere"
        /\ R.ok => R.x.et_cetera_index = None
\* the et-cetera parameter referred to after a finished splice that made copies
NoLeakWitness ==
    /\ Done
    /\ \E i, j \in 1..Len(R.x.log) :
          /\ i < j
          /\ R.x.log[i].k = "Splice"
          /\ R.x.log[i].ok
          /\ R.x.log[j].k = "Local"
          /\ R.x.log[j].isEtc
          /\ R.x.log[j].err = "CannotEtCeteraHere"
          /\ \E h \in 1..(i - 1) : R.x.log[h].k = "Local" /\ R.x.log[h].idx # None
\* C8 as stated: every splice met while an index is installed yields
\* EtCeteraInEtCetera.
NoLeakAsStated ==
    Done =>
        /\ \A j \in 1..Len(R.x.log) :
               LET ev == R.x.log[j]
               IN  /\ IndexDiscipline(ev)
                   /\ (ev.k \in {"Splice", "EtCetera"} /\ ev.idx # None) =>
                          ~ev.ok /\ ev.err = "EtCeteraInEtCetera"
        /\ R.ok => R.x.et_cetera_index = None

\* C9 (as amended): a splice written as the value of a struct field
\* initializer is in no list position: the expansion fails with
\* CannotEtCeteraHere whatever the number of variadic arguments, zero included.
SplicedInitializer(init) == init.ch[1].k = "EtCetera"
StructSplice ==
    (Done /\ Accepted /\ Body.k = "Struct" /\ \E j \in 1..Len(Body.ch) : SplicedInitializer(Body.ch[j])) =>
        /\ ~R.ok
        /\ R.err.kind = "CannotEtCeteraHere"
        /\ \E j \in 1..Len(R.x.log) : R.x.log[j].k = "EtCetera" /\ R.x.log[j].idx = None
\* a struct whose only initializer is a splice of the et-cetera parameter,
\* expanded on no variadic argument
StructSpliceWitness ==
    /\ Done
    /\ Accepted
    /\ EtcPos # None
    /\ EtcCount = 0
    /\ Body = Struct(<<FieldInitializer(1, EtCetera(Local(ParamId(Unwrap(EtcPos)))))>>)
    /\ ~R.ok
\* C9 as stated: a splice written as a struct initializer is accepted and
\* replaced by one copy per variadic argument.
StructSpliceAsStated ==
    (Done /\ Accepted /\ EtcPos # None
          /\ Body = Struct(<<FieldInitializer(1, EtCetera(Local(ParamId(Unwrap(EtcPos)))))>>)) =>
        /\ R.ok
        /\ Len(R.v.ch) = EtcCount
        /\ \A c \in 1..EtcCount : R.v.ch[c].ch[1] = E.args[Unwrap(EtcPos) + c]

\* C10: span propagation.  Every node of an expansion's result that is not
\* an argument of the invocation carries the invocation span.
RECURSIVE FreshSpans(_)
FreshSpans(n) ==
    \/ n \in Range(E.args)
    \/ /\ n.span = E.invocation_span
       /\ \A j \in 1..Len(n.ch) : FreshSpans(n.ch[j])
SpanPropagation == (Done /\ R.ok) => FreshSpans(R.v)

\* C11: recursive macro call.  A macro invoked while its body is not yet set
\* gives the error RecursiveMacroCall and no panic: when make is called
\* again for a symbol whose make is under way, and when an expander expands
\* an invocation of a macro whose body is unset.
RecursionDetected ==
    /\ (expander = None /\ makeResult # None /\ Unwrap(makeResult).reentered) =>
           /\ ~Unwrap(makeResult).ok
           /\ Unwrap(makeResult).err = "RecursiveMacroCall"
           /\ ~panicked
    /\ (Done /\ E.macro.kind = "Macro" /\ E.macro.body = None) =>
           /\ ~R.ok
           /\ R.err.kind = "RecursiveMacroCall"
           /\ ~panicked

\* An expansion of `item` on `args` begun where the expansion of E began,
\* and the outcome of two expansions being the same.
Run(item, args) ==
    expand(InContext(MacroExpander_new(E.invocation_span, item, args),
                     [counter |-> R.start, log |-> <<>>, serial |-> 0, visits |-> 0]))
SameOutcome(r1, r2) ==
    r1.ok = r2.ok /\ r1.v = r2.v /\ r1.err = r2.err /\ r1.x.counter = r2.x.counter
IsUserMacro == Done /\ E.macro.kind = "Macro" /\ E.macro.body # None
IsBuiltin(kind) == Done /\ E.macro.kind = "BuiltinMacro" /\ E.macro.bk = kind

\* C12: bound arguments compose.  bind! on Macro(m, B) and arguments A gives
\* Macro(m, B ++ A); invoking a reference Macro(m, B) on S expands m on
\* B ++ S with B as it is; a body bind!(bind!(m, a..), b..)!(c..) expands
\* like the body m!(a.., b.., c..).
IsReferenceBody == IsUserMacro /\ Body.k = "MacroInvocation" /\ Body.ch[1] = Local(1)
IsComposedBody ==
    /\ IsUserMacro
    /\ Body.k = "MacroInvocation"
    /\ Body.ch[1].k = "MacroInvocation"
    /\ Len(Body.ch[1].ch) >= 2
    /\ Body.ch[1].ch[2].k = "MacroInvocation"
ComposedA == SubSeq(Body.ch[1].ch[2].ch, 3, Len(Body.ch[1].ch[2].ch))
ComposedB == SubSeq(Body.ch[1].ch, 3, Len(Body.ch[1].ch))
ComposedC == Tail(Body.ch)
ComposedMacro == Body.ch[1].ch[2].ch[2].id
BoundCompose ==
    /\ (IsBuiltin("Bind") /\ NArgs >= 1 /\ E.args[1].k = "Macro") =>
           /\ R.ok
           /\ R.v = Node("Macro", E.args[1].id, E.args[1].ch \o Tail(E.args), E.invocation_span)
    /\ IsReferenceBody =>
           SameOutcome(R, Run(ItemOf(E.args[1].id),
                              E.args[1].ch \o [i \in 1..(Len(Body.ch) - 1) |->
                                                  Node("Lit", Body.ch[i + 1].id, <<>>,
                                                       E.invocation_span)]))
    /\ IsComposedBody =>
           /\ Body = Composed(ComposedMacro, ComposedA, ComposedB, ComposedC)
           /\ SameOutcome(R, Run(MacroItem(E.macro.args,
                                           Some(Direct(ComposedMacro, ComposedA, ComposedB,
                                                       ComposedC))),
                                 E.args))
\* bind!(bind!(wrap, $x..., 2), 1)!($x...) expanded on two arguments
BoundComposeWitness ==
    /\ IsComposedBody
    /\ R.ok
    /\ ComposedMacro = WrapItem
    /\ ComposedA = <<EtCetera(Local(1)), Lit(2)>>
    /\ ComposedB = <<Lit(1)>>
    /\ ComposedC = <<EtCetera(Local(1))>>
    /\ NArgs = 2
    /\ Len(R.v.ch) = 6

\* C13: reduce! is a left fold.  On a macro reference f with bound arguments
\* B and values v1..vn, n >= 1, the outcome is r_n, where r_1 = v1 and r_j
\* is the expansion of f on B ++ [r_(j-1), v_j], the expansions made in this
\* order (the first failing one is the outcome); on fewer than two arguments
\* the outcome is NotEnoughMacroArguments(2).
RECURSIVE Fold(_)
Fold(j) ==
    IF j = 1
    THEN Ok(E.args[2], InContext(E, [counter |-> R.start, log |-> <<>>, serial |-> 0,
                                     visits |-> 0]))
    ELSE LET before == Fold(j - 1)
         IN  IF ~before.ok
             THEN before
             ELSE LET r == expand(InContext(
                                 MacroExpander_new(E.invocation_span, ItemOf(E.args[1].id),
                                                   E.args[1].ch \o <<before.v, E.args[j + 1]>>),
                                 before.x))
                  IN  [r EXCEPT !.x = Returned(before.x, r.x)]
ReduceFold ==
    IsBuiltin("Reduce") =>
        /\ NArgs < 2 =>
               ~R.ok /\ R.err = Error("NotEnoughMacroArguments", 2, 0, E.invocation_span)
        /\ (NArgs >= 2 /\ E.args[1].k = "Macro") => SameOutcome(R, Fold(NArgs - 1))
        /\ (NArgs = 2 /\ E.args[1].k = "Macro") => R.ok /\ R.v = E.args[2]
\* reduce!(pair, v1, v2, v3) is pair!(pair!(v1, v2), v3) with its locals renamed
ReduceFoldWitness ==
    /\ IsBuiltin("Reduce")
    /\ NArgs = 4
    /\ E.args[1] = MacroRef(PairItem, <<>>)
    /\ R.ok
    /\ R.v.k = "Block"
    /\ R.v.ch[1].ch[1].k = "Block"
    /\ R.v.ch[1].ch[1].ch[1].ch[1] = E.args[2]
    /\ R.v.ch[1].ch[1].ch[2].ch[2] = E.args[3]
    /\ R.v.ch[2].ch[2] = E.args[4]
    /\ R.v.ch[1].ch[1].ch[1].id < R.v.ch[1].id

\* C14: built-in macro arity.  A built-in macro invoked on a number of
\* arguments outside its arity returns ParamCountMismatch or
\* NotEnoughMacroArguments with the invocation span; it neither accepts the
\* invocation nor panics.
InArity(kind, M) ==
    CASE kind \in {"Stringify", "Env", "IncludeBytes"} -> M = 1
      [] kind \in {"Line", "Column", "File"} -> M = 0
      [] kind \in {"FormatArgs", "Reduce"} -> M >= 2
      [] kind = "Bind" -> M >= 1
      [] OTHER -> TRUE
BuiltinArity ==
    (Done /\ E.macro.kind = "BuiltinMacro" /\ ~InArity(E.macro.bk, NArgs)) =>
        /\ ~panicked
        /\ ~R.ok
        /\ R.err.kind \in {"ParamCountMismatch", "NotEnoughMacroArguments"}
        /\ R.err.span = E.invocation_span

\* The i-th recorded intern_type call, and the structure of the type it was given.
InternCall(i) == interned[i]
CallStructure(i) == Structure(arena[InternCall(i).ctx], InternCall(i).ty)
StructureAt(c, key) == Structure(arena[c], arena[c][key])

\* C15: on each arena, two intern_type calls given structurally equal types
\* returned the same address, the intern set holds no two structurally equal
\* entries, and every address a call returned is still in the set and still
\* holds the type the call was given.
InternUniqueness ==
    /\ \A i, j \in DOMAIN interned :
          (InternCall(i).ctx = InternCall(j).ctx /\ CallStructure(i) = CallStructure(j))
              => InternCall(i).key = InternCall(j).key
    /\ \A c \in Arenas : \A k1, k2 \in types[c] :
          StructureAt(c, k1) = StructureAt(c, k2) => k1 = k2
    /\ \A i \in DOMAIN interned :
          /\ InternCall(i).key \in types[InternCall(i).ctx]
          /\ StructureAt(InternCall(i).ctx, InternCall(i).key) = CallStructure(i)

\* Two calls on one arena were given equal types built over different
\* addresses; the first allocated, the second found the entry of the first.
InternUniquenessWitness ==
    \E i, j \in DOMAIN interned :
        /\ i < j
        /\ InternCall(i).ctx = InternCall(j).ctx
        /\ InternCall(i).ty # InternCall(j).ty
        /\ CallStructure(i) = CallStructure(j)
        /\ InternCall(i).key = InternCall(j).key
        /\ Len(arena[InternCall(i).ctx]) = MaxTypes

\* The latest is_zero_sized query.
Asked == Unwrap(sized)

\* Zero-sized, as the types are built: never; a tuple, an array or a struct
\* (or a closure's data) whose elements are all zero-sized, an array having as
\* many elements as its size; an alias of a zero-sized type; a function item;
\* an enum whose underlying type is zero-sized.  Nothing else.
RECURSIVE ZeroSized(_)
ZeroSized(ty) ==
    LET item == IRItemOf(ty.arg) IN
    \/ ty = TyNever
    \/ ty.kind = "Tuple" /\ \A e \in DOMAIN ty.elems : ZeroSized(ty.elems[e])
    \/ ty.kind = "Array" /\ \A e \in 1..ty.arg : ZeroSized(ty.elems[1])
    \/ ty.kind = "Item" /\ item.kind \in {"StructLike", "Closure"}
          /\ \A f \in DOMAIN item.tys : ZeroSized(item.tys[f])
    \/ ty.kind = "Item" /\ item.kind = "Alias" /\ ZeroSized(item.tys[1])
    \/ ty.kind = "Item" /\ item.kind = "Function"
    \/ ty.kind = "Item" /\ item.kind = "Enum" /\ ZeroSized(item.tys[1])

\* C17: is_zero_sized answers true exactly for never, for tuples, arrays,
\* structs, closure data and aliases whose elements are all zero-sized, for
\* function items and for enums over a zero-sized type; never for a pointer,
\* a function pointer or another builtin.
ZeroSizedDefinition ==
    sized # None =>
        /\ Asked.zero_sized = ZeroSized(Asked.ty)
        /\ Asked.ty.kind \in {"Pointer", "FunctionPointer"} => ~Asked.zero_sized
        /\ (Asked.ty.kind = "Builtin" /\ Asked.ty # TyNever) => ~Asked.zero_sized

\* The query was about an empty array of a sized type, found zero-sized.
ZeroSizedDefinitionWitness ==
    /\ sized # None
    /\ Asked.ty = TyArray(TyU8, 0)
    /\ Asked.zero_sized

\* Reading what was emitted for the function f: the item, the tokens of a
\* given text, the parameters of a signature, the return type it spells.
ItemOfFn(f) == emitted[f].item
HasBody(f) == emitted[f].body_written /\ ItemOfFn(f).body # None
Tokens(toks, text) == SelectSeq(toks, LAMBDA t : t.text = text)
Has(toks, text) == Tokens(toks, text) # <<>>
Operand(n, ty) == [n |-> n, ty |-> ty]
Operands(toks) == [i \in DOMAIN toks |-> Operand(toks[i].n, toks[i].ty)]
SignatureParams(toks) == Operands(Tokens(toks, "param"))
SignatureReturn(toks) == Tokens(toks, "type")[1].ty
\* The body's own signature ends at its opening brace.
BraceAt(toks) == CHOOSE i \in DOMAIN toks : toks[i].text = "{\n"
BodySignature(f) == SubSeq(emitted[f].body, 1, BraceAt(emitted[f].body))
BodyStatements(f) ==
    SubSeq(emitted[f].body, BraceAt(emitted[f].body) + 1, Len(emitted[f].body))

\* The operands written between the parentheses of the calls, in order.
RECURSIVE CallOperands(_, _, _)
CallOperands(toks, i, depth) ==
    IF i > Len(toks) THEN <<>>
    ELSE IF toks[i].text = "(" THEN CallOperands(toks, i + 1, depth + 1)
    ELSE IF toks[i].text = ")" THEN CallOperands(toks, i + 1, depth - 1)
    ELSE IF toks[i].text = "name" /\ depth > 0
         THEN <<Operand(toks[i].n, toks[i].ty)>> \o CallOperands(toks, i + 1, depth)
         ELSE CallOperands(toks, i + 1, depth)

\* The sized parameters of an item and the sized arguments of the calls its
\* statements make, in order.
Sized(tys) == SelectSeq(tys, LAMBDA a : ~ZeroSized(a.ty))
SizedParams(item) == Operands([i \in DOMAIN item.args |-> [n |-> item.args[i].id, ty |-> item.args[i].ty]])
RECURSIVE SizedArgs(_, _)
SizedArgs(statements, i) ==
    IF i > Len(statements) THEN <<>>
    ELSE (IF statements[i].kind = "Expression" /\ statements[i].e[1].kind = "Call"
          THEN Sized(Operands(Tail(statements[i].e[1].sub)))
          ELSE <<>>) \o SizedArgs(statements, i + 1)
CallsWithParams(item) ==
    /\ Len(Unwrap(item.body).statements) = 1
    /\ Unwrap(item.body).statements[1].kind = "Expression"
    /\ Unwrap(item.body).statements[1].e[1].kind = "Call"
    /\ Operands(Tail(Unwrap(item.body).statements[1].e[1].sub)) = SizedParams(item)
NoNeverParam(item) == \A i \in DOMAIN item.args : item.args[i].ty # TyNever

\* C16: a signature, in the declaration and in the definition, lists the
\* parameters whose type is not zero-sized, in order, and spells void exactly
\* for a zero-sized return type; a call passes the arguments whose type is
\* not zero-sized, in order, so no zero-sized argument is passed, and a call
\* given the parameters as arguments has as many operands as the signature.
ZeroSizedElision ==
    \A f \in Written :
        LET item == ItemOfFn(f) IN
        /\ SignatureParams(emitted[f].decl) = Sized(SizedParams(item))
        /\ SignatureReturn(emitted[f].decl) = TyVoid <=> ZeroSized(item.return_type)
        /\ HasBody(f) =>
              /\ SignatureParams(BodySignature(f)) = Sized(SizedParams(item))
              /\ SignatureReturn(BodySignature(f)) = TyVoid <=> ZeroSized(item.return_type)
              /\ NoNeverParam(item) =>
                    /\ CallOperands(BodyStatements(f), 1, 0)
                           = SizedArgs(Unwrap(item.body).statements, 1)
                    /\ \A i \in DOMAIN CallOperands(BodyStatements(f), 1, 0) :
                           ~ZeroSized(CallOperands(BodyStatements(f), 1, 0)[i].ty)
                    /\ CallsWithParams(item) =>
                           Len(CallOperands(BodyStatements(f), 1, 0))
                               = Len(SignatureParams(BodySignature(f)))

\* A function f(a: (), b: u8) whose body calls f(a, b) was emitted: one
\* parameter listed, one argument passed.
ZeroSizedElisionWitness ==
    \E f \in Written :
        /\ HasBody(f)
        /\ ItemOfFn(f).args = <<Parameter(11, TyVoid), Parameter(12, TyU8)>>
        /\ CallsWithParams(ItemOfFn(f))
        /\ SignatureParams(BodySignature(f)) = <<Operand(12, TyU8)>>
        /\ CallOperands(BodyStatements(f), 1, 0) = <<Operand(12, TyU8)>>

\* C18: the definition of a function with a body is written `static` when
\* the function is not exported and without `static` when it is exported,
\* whatever its other attributes and the debug flag.
StaticBodies ==
    \A f \in Written :
        HasBody(f) =>
            (Has(BodySignature(f), "static ") <=> "Export" \notin ItemOfFn(f).attributes)

\* The name registered for the function f.
NameOf(f) == Unwrap(codegen).names[f]

\* C19: write_function_decl registers Native(name) for a function that has
\* no body, is exported or carries a link_name, and Mangled(name, id), or
\* Id(id) when the function is unnamed, for every other function.
NameScheme ==
    \A f \in Written :
        LET item == ItemOfFn(f) IN
        IF item.body = None \/ "Export" \in item.attributes \/ "LinkName" \in item.attributes
        THEN NameOf(f).kind = "Native" /\ NameOf(f).name = Unwrap(item.name)
        ELSE IF item.name # None
             THEN NameOf(f).kind = "Mangled" /\ NameOf(f).name = Unwrap(item.name)
             ELSE NameOf(f).kind = "Id"

\* C20: a #line directive is in an emitted body only when the debug flag is
\* set; without the flag none is written, whatever the spans.
LineDirectives ==
    \A f \in Written :
        (HasBody(f) /\ Has(emitted[f].body, "#line")) => has_flag("debug")

\* The literal written last; its characters after the cast and the opening quote.
Written_ == Unwrap(literal)
LiteralChars == [i \in 1..(Len(Written_.text) - 1) |-> Written_.text[i + 1].n]
HexValue(c) == IF c \in 48..57 THEN c - 48 ELSE IF c \in 97..102 THEN c - 87 ELSE c - 55
IsHexChar(c) == c \in 48..57 \/ c \in 97..102 \/ c \in 65..70

\* C's reading of string literals from the i-th character.  Inside a literal
\* ("in") a backslash starts an escape ("escape"); \x takes every hexadecimal
\* digit that follows ("hex", v the value so far); a quote closes the literal
\* ("out"), and a quote after that opens the adjacent one.  ok is FALSE for
\* text that is no sequence of literals or an escape beyond a byte.
RECURSIVE ReadC(_, _, _, _, _)
ReadC(chars, i, mode, v, bytes) ==
    IF i > Len(chars) THEN [ok |-> mode = "out", bytes |-> bytes]
    ELSE LET c == chars[i] IN
         CASE mode = "hex" /\ IsHexChar(c) -> ReadC(chars, i + 1, "hex", 16 * v + HexValue(c), bytes)
           [] mode = "hex" /\ ~IsHexChar(c) ->
                 IF v > 255 THEN [ok |-> FALSE, bytes |-> bytes]
                 ELSE ReadC(chars, i, "in", 0, Append(bytes, v))
           [] mode = "escape" ->
                 IF c = LetterX THEN ReadC(chars, i + 1, "hex", 0, bytes)
                 ELSE IF c \in {Backslash, Apostrophe, Quote}
                      THEN ReadC(chars, i + 1, "in", 0, Append(bytes, c))
                      ELSE [ok |-> FALSE, bytes |-> bytes]
           [] mode = "in" ->
                 IF c = Backslash THEN ReadC(chars, i + 1, "escape", 0, bytes)
                 ELSE IF c = Quote THEN ReadC(chars, i + 1, "out", 0, bytes)
                 ELSE ReadC(chars, i + 1, "in", 0, Append(bytes, c))
           [] mode = "out" ->
                 IF c = Quote THEN ReadC(chars, i + 1, "in", 0, bytes)
                 ELSE [ok |-> FALSE, bytes |-> bytes]

\* The i-th character ends an escape \xNN: an x two characters before it,
\* after a backslash that is not itself escaped.
RECURSIVE BackslashRun(_, _)
BackslashRun(chars, j) ==
    IF j < 1 \/ chars[j] # Backslash THEN 0 ELSE 1 + BackslashRun(chars, j - 1)
EndsHexEscape(chars, i) ==
    i >= 4 /\ chars[i - 2] = LetterX /\ BackslashRun(chars, i - 3) % 2 = 1

\* The characters read back as the bytes, with no hexadecimal digit directly
\* after an escape \xNN and the flag set exactly after the bytes so escaped.
RoundTrips(chars, bytes, flags) ==
    /\ ReadC(chars, 1, "in", 0, <<>>) = [ok |-> TRUE, bytes |-> bytes]
    /\ \A i \in 1..(Len(chars) - 1) : EndsHexEscape(chars, i) => ~IsHexChar(chars[i + 1])
    /\ \A i \in DOMAIN bytes : flags[i] = (bytes[i] \notin 32..126)

\* C21: the text write_string_literal writes, read by C's rules, denotes the
\* bytes it was given; no hexadecimal digit directly follows an escape \xNN;
\* and the flag is set after a byte written as \xNN and clear after a byte
\* written as itself or with a backslash escape.
LiteralRoundTrip ==
    literal # None => RoundTrips(LiteralChars, Written_.bytes, Written_.flags)

\* The bytes 00 'F' were written: \x00, an empty "" and F.
LiteralRoundTripWitness ==
    /\ literal # None
    /\ Written_.bytes = <<0, 70>>
    /\ LiteralChars = <<Backslash, LetterX, 48, 48, Quote, Quote, 70, Quote>>

\* The first pass under way and the function definitions it visited.
Pass == Unwrap(pass1)
\* The function definition is one the entry point is looked for among: not
\* skipped, and carrying test_main under the `test` configuration, or else
\* named main in the main module's own scope without Export and LinkName.
IsCandidate(f) ==
    /\ f.attributes # None
    /\ IF cfg(Pass.config, "test") # None
       THEN contains(Unwrap(f.attributes), "TestMain")
       ELSE /\ f.name = "main"
            /\ f.scope = RootPath
            /\ ~contains(Unwrap(f.attributes), "Export")
            /\ ~contains(Unwrap(f.attributes), "LinkName")
Candidates == {i \in DOMAIN Pass.visited : IsCandidate(Pass.visited[i])}

\* C22: over the first pass of the main module a candidate is recorded
\* exactly when such a function was visited, the candidate recorded is one
\* of them, and a visit returns MultipleMainFunctions exactly for a function
\* that is the second of them.
EntryPoint ==
    (pass1 # None /\ Pass.main_module_path # None) =>
        /\ (Pass.main_candidate # None) = (Candidates # {})
        /\ Pass.main_candidate # None =>
              \E i \in Candidates : Pass.visited[i].item = Unwrap(Pass.main_candidate)
        /\ \A i \in DOMAIN Pass.visited :
              (Pass.visited[i].err = "MultipleMainFunctions")
                  = (i \in Candidates /\ \E j \in Candidates : j < i)

\* Outside the `test` configuration an exported main was visited, then a
\* plain main in the main module's scope: the second is the candidate.
EntryPointWitness ==
    /\ pass1 # None
    /\ Pass.main_module_path # None
    /\ cfg(Pass.config, "test") = None
    /\ Len(Pass.visited) = 2
    /\ Pass.visited[1].name = "main"
    /\ Pass.visited[1].attributes = Some(<<Plain("Export")>>)
    /\ Pass.visited[2].name = "main"
    /\ Pass.visited[2].attributes = Some(<<>>)
    /\ Pass.visited[2].scope = RootPath
    /\ Pass.main_candidate = Some(Pass.visited[2].item)
    /\ Pass.returned = None

\* The group holds impl blocks and nothing else.
ImplOnly(group) == group # <<>> /\ \A i \in DOMAIN group : group[i] = "Impl"

\* C23: make_item_group returned NoFreeStandingImpl for every group handed to
\* it that holds impl blocks only, one or several.
FreeStandingImplRejected ==
    \A i \in DOMAIN maker.groups :
        ImplOnly(maker.groups[i].group) => maker.groups[i].handled.err = "NoFreeStandingImpl"

\* The attribute list being parsed.
Parsing == Unwrap(attrs)
\* The names of the attributes of the closed set.
AttributeNames ==
    {"align", "cold", "transparent", "packed", "builtin", "export", "must_use", "thread_local",
     "test_main", "test", "link_name", "inline"}

\* C24: once the same attribute was visited twice in one list,
\* parse_attributes has returned DuplicateAttribute, and no attribute list.
DuplicateAttributes ==
    attrs # None =>
        \A i, j \in DOMAIN Parsing.visited :
            (i < j /\ Parsing.visited[i].name = Parsing.visited[j].name
                   /\ Parsing.visited[i].name \in AttributeNames)
                => Parsing.returned = Some(NotParsed("DuplicateAttribute"))

\* The alignment an `align(n)` asks for (None: the meta item is no align, or
\* has no number).
AlignOf(node) ==
    IF node.name # "align" \/ argument_text(node) = None THEN None
    ELSE parse_usize(Unwrap(argument_text(node)))

\* C25: once `packed` and an `align(n)` with n a power of two were visited in
\* one list, in either order, parse_attributes has returned AlignAndPacked;
\* an `align(n)` with n no power of two is rejected; an `align(1)` visited
\* leaves the warning Align1.
AlignPacked ==
    attrs # None =>
        /\ \A i, j \in DOMAIN Parsing.visited :
              (/\ Parsing.visited[i].name = "packed"
               /\ AlignOf(Parsing.visited[j]) # None
               /\ is_power_of_two(Unwrap(AlignOf(Parsing.visited[j]))))
                  => Parsing.returned = Some(NotParsed("AlignAndPacked"))
        /\ \A j \in DOMAIN Parsing.visited :
              AlignOf(Parsing.visited[j]) # None =>
                  /\ ~is_power_of_two(Unwrap(AlignOf(Parsing.visited[j])))
                        => (Parsing.returned # None /\ ~Unwrap(Parsing.returned).ok)
                  /\ (Unwrap(AlignOf(Parsing.visited[j])) = 1 /\ Parsing.returned = None)
                        => "Align1" \in Range(Parsing.warnings)

\* The expression evaluated last.
Evaluated == Unwrap(cfgs)
\* cfg(..) and not(..) have one argument each, all(..) and any(..) any number,
\* and no other operator exists.
RECURSIVE WellFormed(_)
WellFormed(node) ==
    node.arguments # None =>
        /\ node.name \in {"cfg", "all", "any", "not"}
        /\ node.name \in {"cfg", "not"} => Len(Unwrap(node.arguments)) = 1
        /\ \A i \in DOMAIN Unwrap(node.arguments) : WellFormed(Unwrap(node.arguments)[i])
\* The boolean value of a well-formed expression under a configuration.
RECURSIVE ValueOf(_, _)
ValueOf(config, node) ==
    LET arguments == Unwrap(node.arguments) IN
    IF node.arguments = None
    THEN IF node.value = None THEN cfg(config, node.name) # None
         ELSE cfg(config, node.name) = Valued(parse_string_literal(Unwrap(node.value)))
    ELSE IF node.name = "all" THEN \A i \in DOMAIN arguments : ValueOf(config, arguments[i])
    ELSE IF node.name = "any" THEN \E i \in DOMAIN arguments : ValueOf(config, arguments[i])
    ELSE IF node.name = "not" THEN ~ValueOf(config, arguments[1])
    ELSE ValueOf(config, arguments[1])

\* C26: CfgVisitor returns the boolean value of the expression, and
\* InvalidAttribute for an expression in which a cfg(..) or a not(..) has a
\* number of arguments other than one.
CfgEvaluation ==
    cfgs # None =>
        Evaluated.returned = IF WellFormed(Evaluated.node)
                             THEN CfgOk(ValueOf(Evaluated.config, Evaluated.node))
                             ELSE CfgErr("InvalidAttribute")

\* The call arguments as an accepted invocation with the et-cetera parameter
\* at position k bound them: those of the parameters before k, the et-cetera
\* sequence, those of the parameters after k.
BoundInOrder(k) ==
    [i \in 1..k |-> R.x.replacements[ParamId(i - 1)]]
    \o Unwrap(R.x.et_cetera_arg).args
    \o [i \in 1..(NParams - 1 - k) |-> R.x.replacements[ParamId(k + i)]]

\* C27: in an accepted invocation of a macro with an et-cetera parameter, the
\* arguments bound, taken in the order of the parameters with the et-cetera
\* sequence in its place, are the call arguments in call order: each one is
\* bound once, none is dropped.
BoundExactlyOnce ==
    (Done /\ Accepted /\ EtcPos # None) =>
        /\ R.x.et_cetera_arg # None
        /\ DOMAIN R.x.replacements = {ParamId(i) : i \in (0..(NParams - 1)) \ {Unwrap(EtcPos)}}
        /\ BoundInOrder(Unwrap(EtcPos)) = E.args
\* four arguments for a fixed parameter, the et-cetera parameter and a
\* trailing fixed parameter
BoundExactlyOnceWitness ==
    /\ Done
    /\ Accepted
    /\ EtcPos = Some(1)
    /\ NParams = 3
    /\ NArgs = 4
    /\ BoundInOrder(1) = Args(4)

\* C28: the forward declaration and the definition written for a function
\* with a body are both `static` or both not, whatever the attributes of the
\* function and the debug flag.
StorageClassAgrees ==
    \A f \in Written :
        HasBody(f) =>
            (Has(emitted[f].decl, "static ") <=> Has(BodySignature(f), "static "))

\* The macro behind the symbol is fully made: a built-in macro, or a user
\* macro whose body is set.
FullyMade(s) ==
    /\ macroCells[s] # None
    /\ Unwrap(macroCells[s]).kind = "Macro" => Unwrap(macroCells[s]).body # None

\* C29: over every sequence of make calls, a macro cell once assigned keeps
\* its item and a body once set stays as it is; no make call panics on a
\* second assignment; and a make call on a fully made user macro or on a
\* built-in macro returns Ok and leaves every cell as it was.
MakeWriteOnce ==
    [][/\ \A s \in MacroSymbols :
             macroCells[s] # None =>
                 /\ macroCells'[s] # None
                 /\ [Unwrap(macroCells'[s]) EXCEPT !.body = None]
                        = [Unwrap(macroCells[s]) EXCEPT !.body = None]
                 /\ Unwrap(macroCells[s]).body # None => macroCells'[s] = macroCells[s]
       /\ \A s \in MacroSymbols, d \in Definitions :
             MakeEnter(s, d) =>
                 /\ ~panicked'
                 /\ FullyMade(s) =>
                       /\ macroCells' = macroCells
                       /\ makeResult' # None
                       /\ Unwrap(makeResult').ok
                       /\ Unwrap(makeResult').symbol = s
       /\ MakeFinish => ~panicked']_vars
\* While the body of the second macro is generated, make was called on the
\* first, a fully made user macro, and returned Ok.
MakeWriteOnceWitness ==
    /\ making = <<2>>
    /\ FullyMade(1)
    /\ Unwrap(macroCells[1]).kind = "Macro"
    /\ makeResult = Some(Made(1))
    /\ ~panicked

\* C30: when MacroMaker::make has returned an error for a macro and no make
\* of that macro is under way, the macro's cell is unassigned.
NoPartialItem ==
    (makeResult # None /\ ~Unwrap(makeResult).ok
        /\ Unwrap(makeResult).symbol \notin Range(making))
        => macroCells[Unwrap(makeResult).symbol] = None

====
